---- MODULE Spec2Model ----
(***************************************************************************)
(* PDF chunking core of cdk-appmod-catalog-blueprints                      *)
(* (use-cases/document-processing/resources/pdf-chunking).                 *)
(*                                                                         *)
(* The three boundary calculators of chunking_strategies.py are modelled   *)
(* as loop-level state machines over the locals of the Python functions;   *)
(* pages are numbered from 0 as in the source, and tokens_per_page[p] of   *)
(* the source is the (p+1)-th element of the TLA+ sequence.                *)
(*                                                                         *)
(* select_strategy_and_check_thresholds (strategy_selection.py) is an      *)
(* operator applied by one action; retry_with_exponential_backoff          *)
(* (error_handling.py) and handler with _split_and_upload_pdf and          *)
(* _upload_chunk_with_retry (handler.py) are state machines whose steps    *)
(* are the calls they make to the wrapped function and to the storage      *)
(* service.  Each function has its own specification (SpecFixed,           *)
(* SpecToken, SpecHybrid, SpecSelect, SpecRetry, SpecHandler); SpecHandler *)
(* runs the boundary calculators as the handler calls them.                *)
(***************************************************************************)
EXTENDS Integers, Sequences, FiniteSets, TLC

VARIABLES
    \* ---- chunking_strategies.py: arguments and locals -------------------
    pc,                   \* position in the function being run
    total_pages,          \* calculate_chunks_fixed_pages argument
    chunk_size,           \* calculate_chunks_fixed_pages argument
    overlap_pages,        \* calculate_chunks_fixed_pages argument
    tokens_per_page,      \* token / hybrid argument
    max_tokens_per_chunk, \* calculate_chunks_token_based argument
    target_tokens,        \* calculate_chunks_hybrid argument
    max_pages,            \* calculate_chunks_hybrid argument
    overlap_tokens,       \* token / hybrid argument
    current_page,         \* fixed-pages local
    page_num,             \* loop index of "for page_num, page_tokens in enumerate"
    current_chunk_start,
    current_chunk_tokens,
    current_chunk_pages,
    chunk_index,
    chunks,               \* the list being built / returned
    \* ---- strategy_selection.py: select_strategy_and_check_thresholds -----
    total_tokens,         \* argument (total_pages is shared with fixed-pages)
    config,               \* argument: the keys the function reads, or Absent
    selection_result,     \* the StrategySelectionResult returned, or Absent
    \* ---- error_handling.py: retry_with_exponential_backoff ---------------
    max_retries,          \* decorator argument
    base_delay,           \* decorator argument
    max_delay,            \* decorator argument
    jitter,               \* decorator argument
    retryable_exceptions, \* decorator argument: the kinds that are retried
    attempt,              \* loop variable of "for attempt in range(max_retries + 1)"
    call_count,           \* how often the wrapped function has been invoked
    outcomes,             \* what each invocation did: "ok" or the kind it raised
    last_exception,       \* local of the wrapper
    returned,             \* the value the wrapper returned, or Absent
    raised,               \* the exception that left the wrapper, or Absent
    delay,                \* local "delay" as last slept, in tenths of a second
    sleep_count,          \* number of time.sleep(delay) calls made
    \* ---- handler.py: handler and what it calls ---------------------------
    event,                \* handler argument
    environ,              \* os.environ as read by _merge_configuration
    source_object,        \* the object stored under content.bucket / content.key
    merged_config,        \* local of handler, or Absent
    caller,               \* who runs a boundary calculator: Absent when called directly
    split_index,          \* position of "for chunk_meta in chunks_metadata" (from 1)
    pages_added,          \* local of _split_and_upload_pdf
    corrupted_pages,      \* local of _split_and_upload_pdf
    chunk_results,        \* local of _split_and_upload_pdf
    upload_attempt,       \* loop variable of _upload_chunk_with_retry
    last_error,           \* local of _upload_chunk_with_retry: error code, or Absent
    wait_time,            \* local of _upload_chunk_with_retry, tenths of a second
    s3_operation,         \* the storage operation last called, or Absent
    s3_attempts,          \* how often that operation has been called for its key
    storage,              \* keys of the chunk objects present in the bucket
    response,             \* what handler returned, or Absent
    \* ---- error_handling.py: classify_s3_error, classify_pdf_error ----------
    classifier_input,     \* the function called and its argument, or Absent
    classified_error,     \* the PDFChunkingError it returned, or Absent
    \* ---- aggregation/handler.py -------------------------------------------
    aggregation_event,    \* handler argument: documentId and chunkResults, or Absent
    aggregation_result,   \* what the function called returned or raised, or Absent
    \* ---- concurrent runs of _split_and_upload_pdf ---------------------------
    splits,               \* per run: documentId, number of boundaries, next boundary
    writes,               \* the put_object calls made: key, documentId, chunkIndex
    \* ---- chunking_strategies.py: validate_configuration -------------------
    validation_config,    \* argument: the keys the function reads, or Absent
    validation_outcome,   \* what it returned or raised, or Absent
    \* ---- cleanup/handler.py: handler and delete_chunks_batch --------------
    cleanup_event,        \* handler argument: documentId and chunks, or Absent
    chunks_by_bucket,     \* the batches still to submit, per bucket in dict order
    delete_calls,         \* the delete_objects calls made and what each did
    deleted_count,        \* local of delete_chunks_batch
    errors,               \* local of delete_chunks_batch
    cleanup_response      \* what the cleanup handler returned, or Absent

validationVars == <<validation_config, validation_outcome>>

cleanupVars == <<cleanup_event, chunks_by_bucket, delete_calls, deleted_count, errors,
                 cleanup_response>>

chunkVars == <<total_pages, chunk_size, overlap_pages, tokens_per_page,
               max_tokens_per_chunk, target_tokens, max_pages, overlap_tokens,
               current_page, page_num, current_chunk_start,
               current_chunk_tokens, current_chunk_pages, chunk_index, chunks>>

selVars == <<total_tokens, config, selection_result>>

retryVars == <<max_retries, base_delay, max_delay, jitter, retryable_exceptions,
               attempt, call_count, outcomes, last_exception, returned, raised,
               delay, sleep_count>>

handlerVars == <<event, environ, source_object, merged_config, caller, split_index,
                 pages_added, corrupted_pages, chunk_results, upload_attempt,
                 last_error, wait_time, s3_operation, s3_attempts, storage, response,
                 classifier_input, classified_error,
                 aggregation_event, aggregation_result, splits, writes,
                 validationVars, cleanupVars>>

\* what the boundary calculators never touch
nonChunkVars == <<selVars, retryVars, handlerVars>>

vars == <<pc, chunkVars, selVars, retryVars, handlerVars>>

-----------------------------------------------------------------------------
(* Bounds of the explored input space *)

MaxPageTokens == 2      \* tokens on one page: 0..MaxPageTokens
MaxLen == 3             \* every token list up to this length is explored
MaxUniformLen == 13     \* uniform-density lists are explored up to this length
MaxSmallParam == 3      \* small values of the token / page / overlap parameters
LargeMaxPages == 12     \* a page cap above the overlap cap
LargeTokens == 30       \* a token target / overlap target no document reaches
MaxTotalPages == 9      \* fixed-pages: documents of 0..MaxTotalPages pages
MaxChunkSize == 4       \* fixed-pages: chunk_size in 1..MaxChunkSize

(* Program constants *)

MaxOverlapPages == 10   \* "overlap_pages < 10" in calculate_chunks_hybrid

-----------------------------------------------------------------------------
(* Helpers *)

Max(a, b) == IF a >= b THEN a ELSE b
Min(a, b) == IF a <= b THEN a ELSE b

\* tokens_per_page[p] of the source (0-based page p)
PageTokens(t, p) == t[p + 1]

\* a sum that leaves out the last page of the slice
RECURSIVE SumPagesWithoutLast(_, _, _)
SumPagesWithoutLast(t, lo, hi) ==
    IF lo >= hi \/ lo >= Len(t) THEN 0
    ELSE t[lo + 1] + SumPagesWithoutLast(t, lo + 1, hi)

\* sum(tokens_per_page[lo:hi + 1]) with Python's clamping of the slice end
RECURSIVE SumPages(_, _, _)
SumPages(t, lo, hi) ==
    IF lo > hi \/ lo >= Len(t) THEN 0
    ELSE PageTokens(t, lo) + SumPages(t, lo + 1, hi)

RECURSIVE SeqsUpTo(_, _)
SeqsUpTo(S, n) ==
    IF n = 0 THEN {<<>>}
    ELSE LET shorter == SeqsUpTo(S, n - 1)
         IN  shorter \cup {Append(s, x) : s \in {q \in shorter : Len(q) = n - 1}, x \in S}

UniformLists == {[i \in 1..n |-> v] : n \in 0..MaxUniformLen, v \in 0..MaxPageTokens}

\* documents: every short token list, and long lists of uniform density
TokenLists == SeqsUpTo(0..MaxPageTokens, MaxLen) \cup UniformLists

-----------------------------------------------------------------------------
(* calculate_chunks_fixed_pages (chunking_strategies.py 19-69) *)

\* start_page = max(0, current_page - overlap_pages) if chunk_index > 0 else 0
FixedStartPage(cur, ov, idx) == IF idx > 0 THEN Max(0, cur - ov) ELSE 0

\* a variant that forgets to clip the last window to the document
FixedEndPageUnclipped(cur, size, total) == cur + size - 1

\* end_page = min(current_page + chunk_size, total_pages) - 1
FixedEndPage(cur, size, total) == Min(cur + size, total) - 1

FixedChunk(idx, sp, ep) ==
    [chunk_index |-> idx, start_page |-> sp, end_page |-> ep,
     page_count |-> ep - sp + 1]

NoTokenArgs ==
    /\ tokens_per_page = <<>>
    /\ max_tokens_per_chunk = 1
    /\ target_tokens = 1
    /\ max_pages = 1
    /\ overlap_tokens = 0

NoFixedArgs ==
    /\ total_pages = 0
    /\ chunk_size = 1
    /\ overlap_pages = 0

\* an optional value: a missing dictionary key, None, "nothing yet"
Absent == <<>>
Some(v) == <<v>>
TheValue(o) == o[1]

\* the state of the selector and of the retry wrapper while neither is running
SelectorIdle ==
    /\ total_tokens = 0
    /\ config = Absent
    /\ selection_result = Absent

RetryIdle ==
    /\ max_retries = 0
    /\ base_delay = 1
    /\ max_delay = 1
    /\ jitter = FALSE
    /\ retryable_exceptions = {}
    /\ attempt = 0
    /\ call_count = 0
    /\ outcomes = <<>>
    /\ last_exception = Absent
    /\ returned = Absent
    /\ raised = Absent
    /\ delay = 0
    /\ sleep_count = 0

\* validate_configuration and the cleanup handler while they are not running
ServicesIdle ==
    /\ validation_config = Absent
    /\ validation_outcome = Absent
    /\ cleanup_event = Absent
    /\ chunks_by_bucket = <<>>
    /\ delete_calls = <<>>
    /\ deleted_count = 0
    /\ errors = <<>>
    /\ cleanup_response = Absent

\* the state of the handler while it is not running
HandlerIdle ==
    /\ event = Absent
    /\ environ = Absent
    /\ source_object = Absent
    /\ merged_config = Absent
    /\ caller = Absent
    /\ split_index = 0
    /\ pages_added = 0
    /\ corrupted_pages = <<>>
    /\ chunk_results = <<>>
    /\ upload_attempt = 0
    /\ last_error = Absent
    /\ wait_time = 0
    /\ s3_operation = Absent
    /\ s3_attempts = 0
    /\ storage = {}
    /\ response = Absent
    /\ classifier_input = Absent
    /\ classified_error = Absent
    /\ aggregation_event = Absent
    /\ aggregation_result = Absent
    /\ splits = <<>>
    /\ writes = {}
    /\ ServicesIdle

ChunkerIdle ==
    /\ NoTokenArgs
    /\ current_page = 0
    /\ page_num = 0
    /\ current_chunk_start = 0
    /\ current_chunk_tokens = 0
    /\ current_chunk_pages = 0
    /\ chunk_index = 0
    /\ chunks = <<>>

LocalsAtEntry ==
    /\ SelectorIdle
    /\ RetryIdle
    /\ HandlerIdle
    /\ current_page = 0
    /\ page_num = 0
    /\ current_chunk_start = 0
    /\ current_chunk_tokens = 0
    /\ current_chunk_pages = 0
    /\ chunk_index = 0
    /\ chunks = <<>>

InitFixed ==
    /\ pc = "fixed_loop"
    /\ total_pages \in 0..MaxTotalPages
    /\ chunk_size \in 1..MaxChunkSize
    /\ overlap_pages \in 0..MaxChunkSize
    /\ NoTokenArgs
    /\ LocalsAtEntry

\* one iteration of "while current_page < total_pages"
FixedLoop ==
    /\ pc = "fixed_loop"
    /\ current_page < total_pages
    /\ LET sp == FixedStartPage(current_page, overlap_pages, chunk_index)
           ep == FixedEndPage(current_page, chunk_size, total_pages)
       IN  /\ chunks' = Append(chunks, FixedChunk(chunk_index, sp, ep))
           /\ current_page' = ep + 1
           /\ chunk_index' = chunk_index + 1
    /\ UNCHANGED <<pc, total_pages, chunk_size, overlap_pages, tokens_per_page,
                   max_tokens_per_chunk, target_tokens, max_pages, overlap_tokens,
                   page_num, current_chunk_start, current_chunk_tokens,
                   current_chunk_pages>>
    /\ UNCHANGED nonChunkVars

\* loop exit and "return chunks"
FixedReturn ==
    /\ pc = "fixed_loop"
    /\ ~(current_page < total_pages)
    /\ pc' = "done"
    /\ UNCHANGED chunkVars
    /\ UNCHANGED nonChunkVars

NextFixed == FixedLoop \/ FixedReturn

SpecFixed == InitFixed /\ [][NextFixed]_vars

-----------------------------------------------------------------------------
(* calculate_chunks_token_based (chunking_strategies.py 72-147) *)

\* while (overlap_start_page >= current_chunk_start and
\*        overlap_accumulated < overlap_tokens): accumulate and step back
RECURSIVE TokenOverlapWalk(_, _, _, _, _)
TokenOverlapWalk(t, osp, acc, ccs, ovt) ==
    IF osp >= ccs /\ acc < ovt
    THEN TokenOverlapWalk(t, osp - 1, acc + PageTokens(t, osp), ccs, ovt)
    ELSE [overlap_start_page |-> osp, overlap_accumulated |-> acc]

\* "current_chunk_tokens + page_tokens > max_tokens_per_chunk and current_chunk_tokens > 0"
TokenShouldFinalize(cct, page_tokens, limit) ==
    cct + page_tokens > limit /\ cct > 0

TokenChunk(idx, sp, ep, pages, tokens) ==
    [chunk_index |-> idx, start_page |-> sp, end_page |-> ep,
     page_count |-> pages, token_count |-> tokens]

InitToken ==
    /\ pc = "token_loop"
    /\ tokens_per_page \in TokenLists
    /\ max_tokens_per_chunk \in 1..MaxSmallParam
    /\ overlap_tokens \in 0..MaxSmallParam
    /\ target_tokens = 1
    /\ max_pages = 1
    /\ NoFixedArgs
    /\ LocalsAtEntry

\* loop body, "if" branch: finalize the current chunk and start the next with overlap
TokenFinalize ==
    /\ pc = "token_loop"
    /\ page_num < Len(tokens_per_page)
    /\ LET page_tokens == PageTokens(tokens_per_page, page_num)
       IN  /\ TokenShouldFinalize(current_chunk_tokens, page_tokens, max_tokens_per_chunk)
           /\ chunks' = Append(chunks,
                  TokenChunk(chunk_index, current_chunk_start, page_num - 1,
                             page_num - current_chunk_start, current_chunk_tokens))
           /\ LET w == TokenOverlapWalk(tokens_per_page, page_num - 1, 0,
                                        current_chunk_start, overlap_tokens)
              IN  /\ current_chunk_start' = Max(0, w.overlap_start_page + 1)
                  /\ current_chunk_tokens' = w.overlap_accumulated + page_tokens
           /\ chunk_index' = chunk_index + 1
    /\ page_num' = page_num + 1
    /\ UNCHANGED <<pc, total_pages, chunk_size, overlap_pages, tokens_per_page,
                   max_tokens_per_chunk, target_tokens, max_pages, overlap_tokens,
                   current_page, current_chunk_pages>>
    /\ UNCHANGED nonChunkVars

\* loop body, "else" branch: add the page to the current chunk
TokenAddPage ==
    /\ pc = "token_loop"
    /\ page_num < Len(tokens_per_page)
    /\ LET page_tokens == PageTokens(tokens_per_page, page_num)
       IN  /\ ~TokenShouldFinalize(current_chunk_tokens, page_tokens, max_tokens_per_chunk)
           /\ current_chunk_tokens' = current_chunk_tokens + page_tokens
    /\ page_num' = page_num + 1
    /\ UNCHANGED <<pc, total_pages, chunk_size, overlap_pages, tokens_per_page,
                   max_tokens_per_chunk, target_tokens, max_pages, overlap_tokens,
                   current_page, current_chunk_start, current_chunk_pages,
                   chunk_index, chunks>>
    /\ UNCHANGED nonChunkVars

\* after the loop: "if current_chunk_tokens > 0: chunks.append(final)" and return
TokenReturn ==
    /\ pc = "token_loop"
    /\ page_num = Len(tokens_per_page)
    /\ chunks' = IF current_chunk_tokens > 0
                 THEN Append(chunks,
                         TokenChunk(chunk_index, current_chunk_start,
                                    Len(tokens_per_page) - 1,
                                    Len(tokens_per_page) - current_chunk_start,
                                    current_chunk_tokens))
                 ELSE chunks
    /\ pc' = "done"
    /\ UNCHANGED <<total_pages, chunk_size, overlap_pages, tokens_per_page,
                   max_tokens_per_chunk, target_tokens, max_pages, overlap_tokens,
                   current_page, page_num, current_chunk_start,
                   current_chunk_tokens, current_chunk_pages, chunk_index>>
    /\ UNCHANGED nonChunkVars

NextToken == TokenFinalize \/ TokenAddPage \/ TokenReturn

SpecToken == InitToken /\ [][NextToken]_vars

-----------------------------------------------------------------------------
(* calculate_chunks_hybrid (chunking_strategies.py 151-293) *)

\* the overlap walk-back without the page cap
RECURSIVE HybridOverlapWalkUncapped(_, _, _, _, _, _)
HybridOverlapWalkUncapped(t, osp, acc, ovp, ccs, ovt) ==
    IF osp >= ccs /\ acc < ovt
    THEN HybridOverlapWalkUncapped(t, osp - 1, acc + PageTokens(t, osp), ovp + 1, ccs, ovt)
    ELSE [overlap_start_page |-> osp, overlap_accumulated |-> acc, overlap_pages |-> ovp]

\* while (overlap_start_page >= current_chunk_start and
\*        overlap_accumulated < overlap_tokens and overlap_pages < 10)
RECURSIVE HybridOverlapWalk(_, _, _, _, _, _)
HybridOverlapWalk(t, osp, acc, ovp, ccs, ovt) ==
    IF osp >= ccs /\ acc < ovt /\ ovp < MaxOverlapPages
    THEN HybridOverlapWalk(t, osp - 1, acc + PageTokens(t, osp), ovp + 1, ccs, ovt)
    ELSE [overlap_start_page |-> osp, overlap_accumulated |-> acc, overlap_pages |-> ovp]

\* should_finalize of the main loop
HybridShouldFinalize(cct, ccp, page_tokens, target, cap) ==
    \/ (cct + page_tokens > target /\ cct > 0)
    \/ (ccp >= cap /\ ccp > 0)

\* finalize_reason = 'page_limit' if current_chunk_pages >= max_pages else 'token_limit'
HybridFinalizeReason(ccp, cap) == IF ccp >= cap THEN "page_limit" ELSE "token_limit"

HybridChunk(idx, sp, ep, pages, tokens, reason) ==
    [chunk_index |-> idx, start_page |-> sp, end_page |-> ep,
     page_count |-> pages, token_count |-> tokens, finalize_reason |-> reason]

\* The re-split loop of a terminating call appends at most one boundary per page;
\* a call that has appended more than this is cut off.
ResplitCutoff(t) == 2 * Len(t) + 2

InitHybrid ==
    /\ pc = "hybrid_loop"
    /\ tokens_per_page \in TokenLists
    /\ target_tokens \in (1..MaxSmallParam) \cup {LargeTokens}
    /\ max_pages \in (1..MaxSmallParam) \cup {LargeMaxPages}
    /\ overlap_tokens \in (0..MaxSmallParam) \cup {LargeTokens}
    /\ max_tokens_per_chunk = 1
    /\ NoFixedArgs
    /\ LocalsAtEntry

\* main loop, "if should_finalize" branch
HybridFinalize ==
    /\ pc = "hybrid_loop"
    /\ page_num < Len(tokens_per_page)
    /\ LET page_tokens == PageTokens(tokens_per_page, page_num)
       IN  /\ HybridShouldFinalize(current_chunk_tokens, current_chunk_pages,
                                   page_tokens, target_tokens, max_pages)
           /\ chunks' = Append(chunks,
                  HybridChunk(chunk_index, current_chunk_start, page_num - 1,
                              current_chunk_pages, current_chunk_tokens,
                              HybridFinalizeReason(current_chunk_pages, max_pages)))
           /\ LET w == HybridOverlapWalk(tokens_per_page, page_num - 1, 0, 0,
                                         current_chunk_start, overlap_tokens)
              IN  /\ current_chunk_start' = Max(0, w.overlap_start_page + 1)
                  /\ current_chunk_tokens' = w.overlap_accumulated + page_tokens
                  /\ current_chunk_pages' = w.overlap_pages + 1
           /\ chunk_index' = chunk_index + 1
    /\ page_num' = page_num + 1
    /\ UNCHANGED <<pc, total_pages, chunk_size, overlap_pages, tokens_per_page,
                   max_tokens_per_chunk, target_tokens, max_pages, overlap_tokens,
                   current_page>>
    /\ UNCHANGED nonChunkVars

\* main loop, "else" branch: add the page to the current chunk
HybridAddPage ==
    /\ pc = "hybrid_loop"
    /\ page_num < Len(tokens_per_page)
    /\ LET page_tokens == PageTokens(tokens_per_page, page_num)
       IN  /\ ~HybridShouldFinalize(current_chunk_tokens, current_chunk_pages,
                                    page_tokens, target_tokens, max_pages)
           /\ current_chunk_tokens' = current_chunk_tokens + page_tokens
           /\ current_chunk_pages' = current_chunk_pages + 1
    /\ page_num' = page_num + 1
    /\ UNCHANGED <<pc, total_pages, chunk_size, overlap_pages, tokens_per_page,
                   max_tokens_per_chunk, target_tokens, max_pages, overlap_tokens,
                   current_page, current_chunk_start, chunk_index, chunks>>
    /\ UNCHANGED nonChunkVars

\* end of the main loop: "if current_chunk_tokens > 0" enters the trailing-chunk
\* code, otherwise the function returns what it has
HybridLoopExit ==
    /\ pc = "hybrid_loop"
    /\ page_num = Len(tokens_per_page)
    /\ pc' = IF current_chunk_tokens > 0 THEN "hybrid_resplit" ELSE "done"
    /\ UNCHANGED chunkVars
    /\ UNCHANGED nonChunkVars

\* one iteration of "while current_chunk_pages > max_pages"
HybridResplit ==
    /\ pc = "hybrid_resplit"
    /\ current_chunk_pages > max_pages
    /\ Len(chunks) < ResplitCutoff(tokens_per_page)
    /\ LET split_end_page == current_chunk_start + max_pages - 1
           split_tokens == SumPages(tokens_per_page, current_chunk_start, split_end_page)
           w == HybridOverlapWalk(tokens_per_page, split_end_page, 0, 0,
                                  current_chunk_start, overlap_tokens)
           next_start == Max(0, w.overlap_start_page + 1)
       IN  /\ chunks' = Append(chunks,
                  HybridChunk(chunk_index, current_chunk_start, split_end_page,
                              max_pages, split_tokens, "page_limit"))
           /\ current_chunk_start' = next_start
           /\ current_chunk_pages' = Len(tokens_per_page) - next_start
           /\ current_chunk_tokens' =
                  SumPages(tokens_per_page, next_start, Len(tokens_per_page) - 1)
           /\ chunk_index' = chunk_index + 1
    /\ UNCHANGED <<pc, total_pages, chunk_size, overlap_pages, tokens_per_page,
                   max_tokens_per_chunk, target_tokens, max_pages, overlap_tokens,
                   current_page, page_num>>
    /\ UNCHANGED nonChunkVars

\* the trailing chunk fits: append it as 'final_chunk' and return
HybridReturn ==
    /\ pc = "hybrid_resplit"
    /\ ~(current_chunk_pages > max_pages)
    /\ chunks' = Append(chunks,
           HybridChunk(chunk_index, current_chunk_start, Len(tokens_per_page) - 1,
                       current_chunk_pages, current_chunk_tokens, "final_chunk"))
    /\ pc' = "done"
    /\ UNCHANGED <<total_pages, chunk_size, overlap_pages, tokens_per_page,
                   max_tokens_per_chunk, target_tokens, max_pages, overlap_tokens,
                   current_page, page_num, current_chunk_start,
                   current_chunk_tokens, current_chunk_pages, chunk_index>>
    /\ UNCHANGED nonChunkVars

NextHybrid ==
    HybridFinalize \/ HybridAddPage \/ HybridLoopExit \/ HybridResplit \/ HybridReturn

SpecHybrid == InitHybrid /\ [][NextHybrid]_vars

-----------------------------------------------------------------------------
(* Properties of the boundary calculators *)

\* every page 0..n-1 lies in a boundary: the list is non-empty, starts at page 0,
\* ends at page n-1, leaves no gap, and numbers its boundaries 0, 1, 2, ...
CoversEveryPage(cs, n) ==
    /\ Len(cs) > 0
    /\ cs[1].start_page = 0
    /\ cs[Len(cs)].end_page = n - 1
    /\ \A k \in 1..Len(cs) : cs[k].chunk_index = k - 1
    /\ \A k \in 2..Len(cs) : cs[k].start_page <= cs[k - 1].end_page + 1

CeilDiv(a, b) == (a + b - 1) \div b

\* C1: every boundary returned by calculate_chunks_token_based has
\* token_count <= max_tokens_per_chunk or spans exactly one page.
C1_TokenLimitOrSinglePage ==
    pc = "done" =>
        \A k \in 1..Len(chunks) :
            \/ chunks[k].token_count <= max_tokens_per_chunk
            \/ chunks[k].start_page = chunks[k].end_page

\* C2: every boundary returned by calculate_chunks_hybrid has
\* page_count <= max_pages, boundaries that start with overlap pages included.
C2_HybridPageCap ==
    pc = "done" => \A k \in 1..Len(chunks) : chunks[k].page_count <= max_pages

\* C3: calculate_chunks_hybrid terminates: every iteration of the re-split loop
\* of the trailing chunk moves current_chunk_start forward.
C3_ResplitAdvances ==
    [][(pc = "hybrid_resplit" /\ pc' = "hybrid_resplit")
          => current_chunk_start' > current_chunk_start]_vars

\* C4: for a non-empty document calculate_chunks_token_based returns boundaries
\* that cover every page, without a gap, numbered from 0.
C4_TokenCoversEveryPage ==
    (pc = "done" /\ Len(tokens_per_page) > 0)
        => CoversEveryPage(chunks, Len(tokens_per_page))

\* C5: for a non-empty document calculate_chunks_hybrid returns boundaries
\* that cover every page, without a gap, numbered from 0.
C5_HybridCoversEveryPage ==
    (pc = "done" /\ Len(tokens_per_page) > 0 /\ max_pages > 0 /\ target_tokens > 0)
        => CoversEveryPage(chunks, Len(tokens_per_page))

PageOverlap(cs, k) == cs[k].end_page - cs[k + 1].start_page + 1

\* C7: consecutive boundaries of calculate_chunks_hybrid overlap by at most 10
\* pages, in the main pass and in the trailing re-split, whatever overlap_tokens is.
C7_HybridOverlapAtMostTen ==
    \A k \in 1..(Len(chunks) - 1) : PageOverlap(chunks, k) <= MaxOverlapPages

\* the cap is what stopped the walk-back: ten pages are shared although they
\* hold fewer tokens than overlap_tokens and the previous boundary had more pages
C7_Witness ==
    /\ pc = "done"
    /\ \E k \in 1..(Len(chunks) - 1) :
          /\ PageOverlap(chunks, k) = MaxOverlapPages
          /\ chunks[k].page_count > MaxOverlapPages
          /\ SumPages(tokens_per_page, chunks[k + 1].start_page, chunks[k].end_page)
                 < overlap_tokens

-----------------------------------------------------------------------------
(* strategy_selection.py: select_strategy_and_check_thresholds *)

MaxThreshold == 2          \* thresholds given in a config: 1..MaxThreshold
DefaultPageThreshold == 100
DefaultTokenThreshold == 150000

\* config.get(key, default): the value under the key, the default when absent
ConfigGet(cfg, key, default) ==
    IF cfg[key] = Absent THEN default ELSE TheValue(cfg[key])

\* a comparison that also fires at the threshold
ExceedsOrEqual(value, threshold) == value >= threshold

\* "total_pages > page_threshold" / "total_tokens > token_threshold"
Exceeds(value, threshold) == value > threshold

\* check_fixed_pages_threshold: (requires_chunking, page_threshold_exceeded)
check_fixed_pages_threshold(pages, page_threshold) ==
    LET page_threshold_exceeded == Exceeds(pages, page_threshold)
    IN  <<page_threshold_exceeded, page_threshold_exceeded>>

\* check_token_based_threshold: (requires_chunking, token_threshold_exceeded)
check_token_based_threshold(tokens, token_threshold) ==
    LET token_threshold_exceeded == Exceeds(tokens, token_threshold)
    IN  <<token_threshold_exceeded, token_threshold_exceeded>>

\* check_hybrid_threshold:
\* (requires_chunking, page_threshold_exceeded, token_threshold_exceeded)
check_hybrid_threshold(pages, tokens, page_threshold, token_threshold) ==
    LET page_threshold_exceeded == Exceeds(pages, page_threshold)
        token_threshold_exceeded == Exceeds(tokens, token_threshold)
    IN  <<page_threshold_exceeded \/ token_threshold_exceeded,
          page_threshold_exceeded, token_threshold_exceeded>>

\* _build_hybrid_reason: which of its four sentences is produced
build_hybrid_reason(page_exceeded, token_exceeded, requires_chunking) ==
    IF requires_chunking
    THEN IF page_exceeded /\ token_exceeded THEN "hybrid: both thresholds exceeded"
         ELSE IF page_exceeded THEN "hybrid: pages exceeding, tokens below"
         ELSE "hybrid: tokens exceeding, pages below"
    ELSE "hybrid: below thresholds"

select_strategy_and_check_thresholds(pages, tokens, cfg) ==
    LET strategy == ConfigGet(cfg, "strategy", ConfigGet(cfg, "chunkingStrategy", "hybrid"))
        page_threshold ==
            ConfigGet(cfg, "pageThreshold", ConfigGet(cfg, "page_threshold", DefaultPageThreshold))
        token_threshold ==
            ConfigGet(cfg, "tokenThreshold", ConfigGet(cfg, "token_threshold", DefaultTokenThreshold))
        f == check_fixed_pages_threshold(pages, page_threshold)
        t == check_token_based_threshold(tokens, token_threshold)
        h == check_hybrid_threshold(pages, tokens, page_threshold, token_threshold)
        base == [strategy |-> strategy, document_pages |-> pages,
                 document_tokens |-> tokens, page_threshold |-> page_threshold,
                 token_threshold |-> token_threshold]
    IN  IF strategy = "fixed-pages"
        THEN base @@ [requires_chunking |-> f[1], page_threshold_exceeded |-> f[2],
                      token_threshold_exceeded |-> FALSE,
                      reason |-> IF f[1] THEN "fixed-pages: exceeding" ELSE "fixed-pages: below"]
        ELSE IF strategy = "token-based"
        THEN base @@ [requires_chunking |-> t[1], page_threshold_exceeded |-> FALSE,
                      token_threshold_exceeded |-> t[2],
                      reason |-> IF t[1] THEN "token-based: exceeding" ELSE "token-based: below"]
        ELSE base @@ [requires_chunking |-> h[1], page_threshold_exceeded |-> h[2],
                      token_threshold_exceeded |-> h[3],
                      reason |-> build_hybrid_reason(h[2], h[3], h[1])]

OptionalThreshold == {Absent} \cup {Some(v) : v \in 1..MaxThreshold}

\* the configurations explored: either spelling of each key, present or not
SelectorConfigs ==
    [strategy : {Absent, Some("fixed-pages"), Some("token-based"), Some("hybrid"),
                 Some("unknown")},
     chunkingStrategy : {Absent, Some("fixed-pages"), Some("token-based")},
     pageThreshold : OptionalThreshold,
     page_threshold : OptionalThreshold,
     tokenThreshold : OptionalThreshold,
     token_threshold : OptionalThreshold]

\* document sizes around the configured thresholds and around the defaults
DocumentPages ==
    (0..(MaxThreshold + 1)) \cup {DefaultPageThreshold, DefaultPageThreshold + 1}

DocumentTokens ==
    (0..(MaxThreshold + 1)) \cup {DefaultTokenThreshold, DefaultTokenThreshold + 1}

InitSelect ==
    /\ pc = "select"
    /\ total_pages \in DocumentPages
    /\ total_tokens \in DocumentTokens
    /\ config \in SelectorConfigs
    /\ selection_result = Absent
    /\ chunk_size = 1
    /\ overlap_pages = 0
    /\ ChunkerIdle
    /\ RetryIdle
    /\ HandlerIdle

SelectStrategy ==
    /\ pc = "select"
    /\ selection_result' =
           Some(select_strategy_and_check_thresholds(total_pages, total_tokens, config))
    /\ pc' = "done"
    /\ UNCHANGED <<chunkVars, total_tokens, config, retryVars, handlerVars>>

NextSelect == SelectStrategy

SpecSelect == InitSelect /\ [][NextSelect]_vars

\* C8: requires_chunking is total_pages > page threshold under fixed-pages (token
\* threshold never reported exceeded), total_tokens > token threshold under
\* token-based (page threshold never reported exceeded), and the OR of the two
\* under hybrid, which is also the strategy when none is configured; the
\* comparisons are strict: at the threshold no chunking, one above it chunking.
C8_StrictThresholds ==
    pc = "done" =>
        LET r == TheValue(selection_result)
            overPages == r.document_pages > r.page_threshold
            overTokens == r.document_tokens > r.token_threshold
        IN  /\ r.document_pages = total_pages /\ r.document_tokens = total_tokens
            /\ (config.strategy = Absent /\ config.chunkingStrategy = Absent)
                   => r.strategy = "hybrid"
            /\ r.strategy = "fixed-pages" =>
                   /\ r.requires_chunking = overPages
                   /\ r.token_threshold_exceeded = FALSE
            /\ r.strategy = "token-based" =>
                   /\ r.requires_chunking = overTokens
                   /\ r.page_threshold_exceeded = FALSE
            /\ r.strategy = "hybrid" =>
                   r.requires_chunking = (overPages \/ overTokens)
            /\ (r.strategy = "fixed-pages" /\ total_pages = r.page_threshold)
                   => ~r.requires_chunking
            /\ (r.strategy = "fixed-pages" /\ total_pages = r.page_threshold + 1)
                   => r.requires_chunking
            /\ (r.strategy = "token-based" /\ total_tokens = r.token_threshold)
                   => ~r.requires_chunking
            /\ (r.strategy = "token-based" /\ total_tokens = r.token_threshold + 1)
                   => r.requires_chunking
            /\ (r.strategy = "hybrid" /\ total_pages = r.page_threshold
                  /\ total_tokens = r.token_threshold) => ~r.requires_chunking

\* the default strategy with the default thresholds: the document sits exactly on
\* both thresholds and is not chunked
C8_Witness ==
    /\ pc = "done"
    /\ config.strategy = Absent /\ config.chunkingStrategy = Absent
    /\ config.pageThreshold = Absent /\ config.page_threshold = Absent
    /\ config.tokenThreshold = Absent /\ config.token_threshold = Absent
    /\ total_pages = DefaultPageThreshold
    /\ total_tokens = DefaultTokenThreshold
    /\ TheValue(selection_result).strategy = "hybrid"
    /\ ~TheValue(selection_result).requires_chunking

-----------------------------------------------------------------------------
(* error_handling.py: retry_with_exponential_backoff *)

MaxRetriesBound == 3     \* max_retries in 0..MaxRetriesBound
MaxBaseDelay == 2        \* base_delay in 1..MaxBaseDelay (seconds)
MaxMaxDelay == 5         \* max_delay in 1..MaxMaxDelay (seconds)

\* the kinds of exception the wrapped function raises
ExceptionKinds == {"S3ThrottlingError", "DynamoDBWriteError",
                   "InvalidPDFFormatError", "S3AccessDeniedError"}

\* the default of the decorator, and the argument the tests pass
RetryableChoices == {{"S3ThrottlingError", "DynamoDBWriteError"}, {"S3ThrottlingError"}}

\* random.random(), in tenths: a value of [0, 1)
RandomTenths == 0..9

RECURSIVE Pow2(_)
Pow2(n) == IF n = 0 THEN 1 ELSE 2 * Pow2(n - 1)

\* "for attempt in range(max_retries + 1)": the attempt is inside the range
InRetryRange(a, retries) == a < retries + 1

\* a wrapper that gives up one attempt early
CanRetryOneShort(a, retries) == a < retries - 1

\* "if attempt < max_retries": another attempt follows, after a sleep
CanRetry(a, retries) == a < retries

\* delay = min(base_delay * (2 ** attempt), max_delay), in tenths of a second
BackoffDelay(base, a, cap) == 10 * Min(base * Pow2(a), cap)

\* "if jitter: delay = delay * (0.5 + random.random())", r being random() in tenths
JitteredDelay(d, useJitter, r) ==
    IF useJitter THEN (d * (5 + r)) \div 10 ELSE d

InitRetry ==
    /\ pc = "retry_call"
    /\ max_retries \in (-1)..MaxRetriesBound
    /\ base_delay \in 1..MaxBaseDelay
    /\ max_delay \in 1..MaxMaxDelay
    /\ jitter \in BOOLEAN
    /\ retryable_exceptions \in RetryableChoices
    /\ attempt = 0
    /\ call_count = 0
    /\ outcomes = <<>>
    /\ last_exception = Absent
    /\ returned = Absent
    /\ raised = Absent
    /\ delay = 0
    /\ sleep_count = 0
    /\ NoFixedArgs
    /\ ChunkerIdle
    /\ SelectorIdle
    /\ HandlerIdle

\* "return func(*args, **kwargs)": the invocation succeeds
RetryCallReturns ==
    /\ pc = "retry_call"
    /\ InRetryRange(attempt, max_retries)
    /\ call_count' = call_count + 1
    /\ outcomes' = Append(outcomes, "ok")
    /\ returned' = Some([value |-> "success", call |-> call_count + 1])
    /\ pc' = "returned"
    /\ UNCHANGED <<chunkVars, selVars, handlerVars, max_retries, base_delay, max_delay, jitter,
                   retryable_exceptions, attempt, last_exception, raised, delay, sleep_count>>

\* "except retryable_exceptions", attempt < max_retries: sleep and go round again
RetryCallFailsAndSleeps ==
    /\ pc = "retry_call"
    /\ InRetryRange(attempt, max_retries)
    /\ CanRetry(attempt, max_retries)
    /\ \E kind \in retryable_exceptions, r \in RandomTenths :
          /\ outcomes' = Append(outcomes, kind)
          /\ last_exception' = Some([kind |-> kind, call |-> call_count + 1])
          /\ delay' = JitteredDelay(BackoffDelay(base_delay, attempt, max_delay), jitter, r)
    /\ sleep_count' = sleep_count + 1
    /\ call_count' = call_count + 1
    /\ attempt' = attempt + 1
    /\ UNCHANGED <<pc, chunkVars, selVars, handlerVars, max_retries, base_delay, max_delay, jitter,
                   retryable_exceptions, returned, raised>>

\* "except retryable_exceptions", no attempt left: log and "raise"
RetryCallFailsAndRaises ==
    /\ pc = "retry_call"
    /\ InRetryRange(attempt, max_retries)
    /\ ~CanRetry(attempt, max_retries)
    /\ \E kind \in retryable_exceptions :
          /\ outcomes' = Append(outcomes, kind)
          /\ last_exception' = Some([kind |-> kind, call |-> call_count + 1])
          /\ raised' = Some([kind |-> kind, call |-> call_count + 1])
    /\ call_count' = call_count + 1
    /\ pc' = "raised"
    /\ UNCHANGED <<chunkVars, selVars, handlerVars, max_retries, base_delay, max_delay, jitter,
                   retryable_exceptions, attempt, returned, delay, sleep_count>>

\* an exception no "except" clause of the wrapper catches leaves it at once
RetryCallFailsOther ==
    /\ pc = "retry_call"
    /\ InRetryRange(attempt, max_retries)
    /\ \E kind \in ExceptionKinds \ retryable_exceptions :
          /\ outcomes' = Append(outcomes, kind)
          /\ raised' = Some([kind |-> kind, call |-> call_count + 1])
    /\ call_count' = call_count + 1
    /\ pc' = "raised"
    /\ UNCHANGED <<chunkVars, selVars, handlerVars, max_retries, base_delay, max_delay, jitter,
                   retryable_exceptions, attempt, last_exception, returned, delay, sleep_count>>

\* the range is exhausted without return or raise: "if last_exception: raise
\* last_exception", else the wrapper returns None (an empty range, max_retries < 0)
RetryLoopExhausted ==
    /\ pc = "retry_call"
    /\ ~InRetryRange(attempt, max_retries)
    /\ raised' = last_exception
    /\ pc' = IF last_exception = Absent THEN "returned" ELSE "raised"
    /\ UNCHANGED <<chunkVars, selVars, handlerVars, max_retries, base_delay, max_delay, jitter,
                   retryable_exceptions, attempt, call_count, outcomes,
                   last_exception, returned, delay, sleep_count>>

NextRetry ==
    \/ RetryCallReturns
    \/ RetryCallFailsAndSleeps
    \/ RetryCallFailsAndRaises
    \/ RetryCallFailsOther
    \/ RetryLoopExhausted

SpecRetry == InitRetry /\ [][NextRetry]_vars

\* C9: with max_retries >= 0 the wrapped function is invoked until its first
\* success or until max_retries + 1 invocations failed with a retryable kind; the
\* first success is what the wrapper returns; after max_retries + 1 retryable
\* failures the last error is re-raised; a failure of a non-retryable kind leaves
\* the wrapper in the invocation that raised it, so that a first such failure is
\* the only invocation. Failing twice and then succeeding with max_retries = 2
\* returns the success after exactly 3 invocations.
C9_RetryContract ==
    max_retries >= 0 =>
        LET n == Len(outcomes) IN
        /\ call_count = n
        /\ n <= max_retries + 1
        /\ \A i \in 1..(n - 1) : outcomes[i] \in retryable_exceptions
        /\ pc = "retry_call" =>
               /\ n <= max_retries
               /\ \A i \in 1..n : outcomes[i] \in retryable_exceptions
        /\ pc = "returned" =>
               /\ n >= 1
               /\ outcomes[n] = "ok"
               /\ returned = Some([value |-> "success", call |-> n])
               /\ raised = Absent
        /\ pc = "raised" =>
               /\ n >= 1
               /\ outcomes[n] # "ok"
               /\ raised = Some([kind |-> outcomes[n], call |-> n])
               /\ returned = Absent
               /\ outcomes[n] \in retryable_exceptions => n = max_retries + 1
               /\ outcomes[1] \notin retryable_exceptions => n = 1
        /\ (max_retries = 2 /\ n = 3 /\ outcomes[3] = "ok") =>
               /\ pc = "returned"
               /\ call_count = 3

\* throttled twice, then a success on the third invocation, max_retries = 2
C9_Witness ==
    /\ pc = "returned"
    /\ max_retries = 2
    /\ outcomes = <<"S3ThrottlingError", "S3ThrottlingError", "ok">>
    /\ call_count = 3
    /\ sleep_count = 2

-----------------------------------------------------------------------------
(* handler.py: handler, _merge_configuration, _split_and_upload_pdf,       *)
(* _upload_chunk_with_retry; token_estimation.py: analyze_pdf_tokens;      *)
(* error_handling.py: classify_s3_error, classify_pdf_error,               *)
(* create_error_response.                                                  *)
(*                                                                         *)
(* The source object is described by what PyPDF2 reads from it: the token  *)
(* estimate of each page and the pages that cannot be copied.  The storage *)
(* service and PyPDF2 are the environment: each call succeeds or fails     *)
(* with any of the error codes listed below.                               *)

MaxDocPages == 3         \* source documents of 0..MaxDocPages pages

(* Program constants *)

DefaultChunkSize == 50
DefaultOverlapPages == 5
DefaultMaxTokensPerChunk == 100000
DefaultOverlapTokens == 5000
DefaultTargetTokensPerChunk == 80000
DefaultMaxPagesPerChunk == 99
UploadMaxRetries == 3    \* _upload_chunk_with_retry(..., max_retries: int = 3)

\* error codes a ClientError of get_object / put_object carries
GetObjectErrorCodes == {"AccessDenied", "NoSuchKey", "NoSuchBucket", "SlowDown",
                        "ServiceUnavailable", "InternalError", "RequestTimeout"}

PutObjectErrorCodes == {"AccessDenied", "NoSuchBucket", "InvalidBucketName",
                        "SlowDown", "InternalError", "RequestTimeout"}

\* PDFChunkingError(message, error_type, document_id, recoverable, details): the
\* attributes a response copies.  The message is named by its fixed text, the
\* details dictionary by its keys.
PDFChunkingError(message, error_type, recoverable, details) ==
    [type |-> error_type, message |-> message, recoverable |-> recoverable,
     details |-> details]

\* error_type=f'S3Error_{error_code}'
S3ErrorTypeName(code) ==
    CASE code = "InvalidBucketName" -> "S3Error_InvalidBucketName"
      [] code = "ServiceUnavailable" -> "S3Error_ServiceUnavailable"
      [] code = "InternalError" -> "S3Error_InternalError"
      [] code = "RequestTimeout" -> "S3Error_RequestTimeout"
      [] code = "Unknown" -> "S3Error_Unknown"

\* a classifier whose generic branch marks every other code recoverable
classify_s3_error_all_recoverable(code) ==
    IF code = "AccessDenied"
    THEN PDFChunkingError("Access denied to S3 object", "S3AccessDenied", FALSE,
                          {"bucket", "key"})
    ELSE IF code \in {"NoSuchKey", "NoSuchBucket", "404"}
    THEN PDFChunkingError("S3 object not found", "S3NotFound", FALSE, {"bucket", "key"})
    ELSE IF code \in {"SlowDown", "Throttling", "RequestLimitExceeded"}
    THEN PDFChunkingError("S3 request throttled", "S3Throttling", TRUE, {"error_code"})
    ELSE PDFChunkingError("S3 error", S3ErrorTypeName(code), TRUE,
                          {"error_code", "bucket", "key"})

\* classify_s3_error: the error_type and the recoverable flag of the error built
classify_s3_error(code) ==
    IF code = "AccessDenied"
    THEN PDFChunkingError("Access denied to S3 object", "S3AccessDenied", FALSE,
                          {"bucket", "key"})
    ELSE IF code \in {"NoSuchKey", "NoSuchBucket", "404"}
    THEN PDFChunkingError("S3 object not found", "S3NotFound", FALSE, {"bucket", "key"})
    ELSE IF code \in {"SlowDown", "Throttling", "RequestLimitExceeded"}
    THEN PDFChunkingError("S3 request throttled", "S3Throttling", TRUE, {"error_code"})
    ELSE PDFChunkingError("S3 error", S3ErrorTypeName(code),
                          code \in {"ServiceUnavailable", "InternalError"},
                          {"error_code", "bucket", "key"})

\* A message is the set of the classifier keywords its lower-cased text contains.
\* classify_pdf_error(error): error_str = str(error).lower(), type(error).__name__
classify_pdf_error(msg, type_name) ==
    IF msg \cap {"encrypted", "password"} # {}
    THEN PDFChunkingError("PDF is encrypted and cannot be processed", "EncryptedPDF",
                          FALSE, {})
    ELSE IF msg \cap {"invalid", "not a pdf", "not a valid pdf", "magic"} # {}
    THEN PDFChunkingError("Invalid PDF format", "InvalidPDFFormat", FALSE, {})
    ELSE IF msg \cap {"corrupt", "damaged", "malformed"} # {}
    THEN PDFChunkingError("PDF file is corrupted", "CorruptedPDF", FALSE, {})
    ELSE IF type_name = "PdfReadError"
    THEN PDFChunkingError("Failed to read PDF", "CorruptedPDF", FALSE,
                          {"original_error_type"})
    ELSE PDFChunkingError("PDF processing error", "PDFProcessingError", FALSE,
                          {"original_error_type"})

\* handler, "except Exception as e": PDF-related messages go to classify_pdf_error
\* (text names the message of the exception, which "message=str(e)" copies)
ClassifyUnknownError(msg, type_name, text) ==
    IF msg \cap {"pdf", "pypdf", "page", "reader"} # {}
    THEN classify_pdf_error(msg, type_name)
    ELSE PDFChunkingError(text, "UnexpectedError", FALSE, {"original_error_type"})

\* the ValueError messages of the event validation contain no classifier keyword
MsgInvalidEvent == {}

\* "Failed to analyze PDF s3://...: File s3://... is not a valid PDF. File must
\*  start with PDF magic bytes (%PDF-)."
MsgNotValidPdf == {"pdf", "not a valid pdf", "magic"}

\* "Failed to analyze PDF s3://...: " followed by the message of a PyPDF2 error
MsgAnalyzeFailed(library_msg) == {"pdf"} \cup library_msg

\* messages PyPDF2 may give when it cannot read the pages of a document
LibraryMessages == {{}, {"encrypted"}, {"corrupt"}}

\* event.get('documentId', 'unknown') of the except clauses
ResponseDocumentId(e) ==
    IF e.documentId = Absent THEN "unknown" ELSE TheValue(e.documentId)

\* the older _create_error_response of handler.py: the error carries type and
\* message only
create_untyped_error_response(e, err) ==
    [documentId |-> ResponseDocumentId(e), requiresChunking |-> FALSE,
     error |-> Some([type |-> err.type, message |-> err.message]),
     tokenAnalysis |-> Absent, chunks |-> Absent]

\* create_error_response(document_id, error)
create_error_response(e, err) ==
    [documentId |-> ResponseDocumentId(e), requiresChunking |-> FALSE,
     error |-> Some([type |-> err.type, message |-> err.message,
                     recoverable |-> err.recoverable, details |-> err.details]),
     tokenAnalysis |-> Absent, chunks |-> Absent]

\* the message of the ValueError the event validation raises
EventErrorMessage(e) ==
    IF e.documentId = Absent \/ e.documentId = Some("")
    THEN "Missing required field: documentId"
    ELSE IF e.bucket \in {Absent, Some("")} \/ e.key \in {Absent, Some("")}
    THEN "Missing required fields: content.bucket or content.key"
    ELSE "Unsupported contentType"

\* the three "raise ValueError" tests at the top of handler
EventValid(e) ==
    /\ e.documentId # Absent /\ e.documentId # Some("")
    /\ e.bucket # Absent /\ e.bucket # Some("")
    /\ e.key # Absent /\ e.key # Some("")
    /\ (e.contentType \in {Absent, Some("")} \/ e.contentType = Some("file"))

ConfigKeys == {"strategy", "chunkingStrategy", "pageThreshold", "tokenThreshold",
               "chunkSize", "chunk_size", "overlapPages", "maxTokensPerChunk",
               "overlapTokens", "targetTokensPerChunk", "maxPagesPerChunk"}

NoConfig == [k \in ConfigKeys |-> Absent]

\* a merge in which the environment variables override the event's values
merge_configuration_environment_first(cfg, env) ==
    LET Merged(key, default) ==
            IF env[key] # Absent THEN TheValue(env[key])
            ELSE IF cfg[key] # Absent THEN TheValue(cfg[key])
            ELSE default
        Normalized(alias, key, default) ==
            IF cfg[alias] # Absent THEN TheValue(cfg[alias]) ELSE Merged(key, default)
    IN  [strategy |-> Normalized("chunkingStrategy", "strategy", "hybrid"),
         pageThreshold |-> Merged("pageThreshold", DefaultPageThreshold),
         tokenThreshold |-> Merged("tokenThreshold", DefaultTokenThreshold),
         chunkSize |-> Normalized("chunk_size", "chunkSize", DefaultChunkSize),
         overlapPages |-> Merged("overlapPages", DefaultOverlapPages),
         maxTokensPerChunk |-> Merged("maxTokensPerChunk", DefaultMaxTokensPerChunk),
         overlapTokens |-> Merged("overlapTokens", DefaultOverlapTokens),
         targetTokensPerChunk |->
             Merged("targetTokensPerChunk", DefaultTargetTokensPerChunk),
         maxPagesPerChunk |-> Merged("maxPagesPerChunk", DefaultMaxPagesPerChunk)]

\* _merge_configuration: defaults, then environment variables, then the event's
\* non-None values; the snake_case / alias keys are appended to the dictionary
\* after the canonical ones, so the normalisation loop writes them last.
\* (processingMode and maxConcurrency do not reach the chunking and are left out.)
merge_configuration(cfg, env) ==
    LET Merged(key, default) ==
            IF cfg[key] # Absent THEN TheValue(cfg[key])
            ELSE IF env[key] # Absent THEN TheValue(env[key])
            ELSE default
        Normalized(alias, key, default) ==
            IF cfg[alias] # Absent THEN TheValue(cfg[alias]) ELSE Merged(key, default)
    IN  [strategy |-> Normalized("chunkingStrategy", "strategy", "hybrid"),
         pageThreshold |-> Merged("pageThreshold", DefaultPageThreshold),
         tokenThreshold |-> Merged("tokenThreshold", DefaultTokenThreshold),
         chunkSize |-> Normalized("chunk_size", "chunkSize", DefaultChunkSize),
         overlapPages |-> Merged("overlapPages", DefaultOverlapPages),
         maxTokensPerChunk |-> Merged("maxTokensPerChunk", DefaultMaxTokensPerChunk),
         overlapTokens |-> Merged("overlapTokens", DefaultOverlapTokens),
         targetTokensPerChunk |->
             Merged("targetTokensPerChunk", DefaultTargetTokensPerChunk),
         maxPagesPerChunk |-> Merged("maxPagesPerChunk", DefaultMaxPagesPerChunk)]

\* validate_configuration on a merged configuration (every canonical key present)
validate_configuration(m) ==
    /\ m.chunkSize > 0
    /\ m.overlapPages >= 0
    /\ m.overlapPages < m.chunkSize
    /\ m.pageThreshold > 0
    /\ m.tokenThreshold > 0
    /\ m.maxTokensPerChunk > 0
    /\ m.targetTokensPerChunk > 0
    /\ m.maxPagesPerChunk > 0
    /\ m.overlapTokens >= 0

\* the keys of the merged configuration that select_strategy_and_check_thresholds reads
SelectorView(m) ==
    [strategy |-> Some(m.strategy), chunkingStrategy |-> Absent,
     pageThreshold |-> Some(m.pageThreshold), page_threshold |-> Absent,
     tokenThreshold |-> Some(m.tokenThreshold), token_threshold |-> Absent]

\* A formatted string is the sequence of its characters.  The characters of
\* the document ids used as inputs:
Characters(text) ==
    CASE text = "doc-1"     -> <<"d", "o", "c", "-", "1">>
      [] text = "a"         -> <<"a">>
      [] text = "a1"        -> <<"a", "1">>
      [] text = "a/a"       -> <<"a", "/", "a">>
      [] text = "a_chunk_1" -> <<"a", "_", "c", "h", "u", "n", "k", "_", "1">>

\* str(n) of a non-negative integer
RECURSIVE Str(_)
Str(n) ==
    LET digit == <<"0", "1", "2", "3", "4", "5", "6", "7", "8", "9">>[(n % 10) + 1]
    IN  IF n < 10 THEN <<digit>> ELSE Append(Str(n \div 10), digit)

\* chunk_id = f"{document_id}_chunk_{chunk_index}"
ChunkId(document_id, idx) ==
    Characters(document_id) \o <<"_", "c", "h", "u", "n", "k", "_">> \o Str(idx)

\* a key that joins the document id and the index without separator or folder
ChunkKeyUnseparated(document_id, idx) ==
    <<"c", "h", "u", "n", "k", "s", "/">> \o Characters(document_id) \o Str(idx)
        \o <<".", "p", "d", "f">>

\* chunk_key = f"chunks/{document_id}/{chunk_id}.pdf"
ChunkKey(document_id, idx) ==
    <<"c", "h", "u", "n", "k", "s", "/">> \o Characters(document_id) \o <<"/">>
        \o ChunkId(document_id, idx) \o <<".", "p", "d", "f">>

\* the pages copied if the first add_page that raises ended the page loop
CopiedPagesUntilFailure(obj, sp, ep) ==
    {p \in sp..ep : p < Len(obj.tokens) /\ \A q \in sp..p : q \notin obj.unreadable}

\* the pages of a boundary that add_page copies: "page_num < len(pdf_reader.pages)"
\* and the page is readable
CopiedPages(obj, sp, ep) ==
    {p \in sp..ep : p < Len(obj.tokens) /\ p \notin obj.unreadable}

\* the pages of a boundary on which add_page raises, in page order
RECURSIVE FailedPages(_, _, _)
FailedPages(obj, sp, ep) ==
    IF sp > ep THEN <<>>
    ELSE (IF sp < Len(obj.tokens) /\ sp \in obj.unreadable THEN <<sp>> ELSE <<>>)
         \o FailedPages(obj, sp + 1, ep)

\* "for attempt in range(max_retries)"
InUploadRange(a) == a < UploadMaxRetries

\* a retry loop that gives up one attempt early
UploadCanRetryOnce(a) == a < UploadMaxRetries - 2

\* "if attempt < max_retries - 1": sleep and try again
UploadCanRetry(a) == a < UploadMaxRetries - 1

\* "if error_code in ['AccessDenied', 'NoSuchBucket', 'InvalidBucketName']"
NonRetryableUploadCodes == {"AccessDenied", "NoSuchBucket", "InvalidBucketName"}

\* random.uniform(0, 0.5) in tenths of a second
UploadJitterTenths == {0, 5}

\* ---- the requests, environments and source objects explored ---------------

ValidEvent(cfg) ==
    [documentId |-> Some("doc-1"), bucket |-> Some("bucket"), key |-> Some("doc.pdf"),
     contentType |-> Some("file"), config |-> cfg]

InvalidEvents ==
    {[ValidEvent(NoConfig) EXCEPT !.documentId = Absent],
     [ValidEvent(NoConfig) EXCEPT !.documentId = Some("")],
     [ValidEvent(NoConfig) EXCEPT !.bucket = Absent],
     [ValidEvent(NoConfig) EXCEPT !.key = Some("")],
     [ValidEvent(NoConfig) EXCEPT !.contentType = Some("text")]}

FixedPagesConfigs ==
    {[NoConfig EXCEPT !.strategy = Some("fixed-pages"), !.pageThreshold = pt,
                      !.chunkSize = Some(cs), !.overlapPages = Some(op)] :
        pt \in {Absent, Some(1)}, cs \in {0, 1, 2}, op \in {0, 1}}

TokenBasedConfigs ==
    {[NoConfig EXCEPT !.strategy = Some("token-based"), !.tokenThreshold = tt,
                      !.maxTokensPerChunk = Some(mt), !.overlapTokens = Some(ot)] :
        tt \in {Absent, Some(1)}, mt \in {1, 2}, ot \in {0, 1}}

HybridConfigs ==
    {[NoConfig EXCEPT !.pageThreshold = pt, !.tokenThreshold = tt,
                      !.targetTokensPerChunk = Some(tg), !.maxPagesPerChunk = Some(mp),
                      !.overlapTokens = Some(ot)] :
        pt \in {Absent, Some(1)}, tt \in {Absent, Some(1)},
        tg \in {1, 2}, mp \in {1, 2}, ot \in {0, 1}}

\* both spellings of a key in one request, and a value that fails validation
OtherConfigs ==
    {[NoConfig EXCEPT !.strategy = Some("hybrid"), !.chunkingStrategy = Some("fixed-pages"),
                      !.pageThreshold = Some(1), !.chunkSize = Some(2),
                      !.chunk_size = Some(1), !.overlapPages = Some(0)],
     [NoConfig EXCEPT !.chunkingStrategy = Some("fixed-pages"), !.pageThreshold = Some(1),
                      !.chunk_size = Some(1), !.overlapPages = Some(0)],
     [NoConfig EXCEPT !.maxPagesPerChunk = Some(0)],
     NoConfig}

HandlerConfigs == FixedPagesConfigs \cup TokenBasedConfigs \cup HybridConfigs \cup OtherConfigs

NoEnvironment == [k \in ConfigKeys |-> Absent]

\* CHUNKING_STRATEGY, TOKEN_THRESHOLD, MAX_TOKENS_PER_CHUNK and OVERLAP_TOKENS set
TokenBasedEnvironment ==
    [NoEnvironment EXCEPT !.strategy = Some("token-based"), !.tokenThreshold = Some(1),
                          !.maxTokensPerChunk = Some(1), !.overlapTokens = Some(0)]

DocPageTokens == {0, 1}

\* which pages of an n-page document cannot be copied: none, the first, the last, all
UnreadableChoices(n) == {u \in {{}, {0}, {n - 1}, 0..(n - 1)} : u \subseteq 0..(n - 1)}

PdfObjects ==
    UNION {{[kind |-> "pdf", tokens |-> t, unreadable |-> u] : u \in UnreadableChoices(Len(t))} :
              t \in SeqsUpTo(DocPageTokens, MaxDocPages)}

SourceObjects ==
    PdfObjects \cup {[kind |-> "not_pdf", tokens |-> <<>>, unreadable |-> {}],
                     [kind |-> "encrypted", tokens |-> <<1, 1>>, unreadable |-> {}]}

InitHandler ==
    /\ pc = "handler"
    /\ \/ /\ event \in {ValidEvent(cfg) : cfg \in HandlerConfigs}
          /\ environ = NoEnvironment
          /\ source_object \in SourceObjects
       \/ /\ event \in {ValidEvent(NoConfig),
                        ValidEvent([NoConfig EXCEPT !.maxTokensPerChunk = Some(2)])}
          /\ environ = TokenBasedEnvironment
          /\ source_object \in SourceObjects
       \/ /\ event \in InvalidEvents
          /\ environ = NoEnvironment
          /\ source_object = [kind |-> "pdf", tokens |-> <<1, 1>>, unreadable |-> {}]
    /\ merged_config = Absent
    /\ caller = Absent
    /\ split_index = 0
    /\ pages_added = 0
    /\ corrupted_pages = <<>>
    /\ chunk_results = <<>>
    /\ upload_attempt = 0
    /\ last_error = Absent
    /\ wait_time = 0
    /\ s3_operation = Absent
    /\ s3_attempts = 0
    /\ storage = {}
    /\ response = Absent
    /\ classifier_input = Absent
    /\ classified_error = Absent
    /\ aggregation_event = Absent
    /\ aggregation_result = Absent
    /\ splits = <<>>
    /\ writes = {}
    /\ ServicesIdle
    /\ NoFixedArgs
    /\ ChunkerIdle
    /\ SelectorIdle
    /\ RetryIdle

\* ---- frames ----------------------------------------------------------------

aggregationVars == <<aggregation_event, aggregation_result>>

keyVars == <<splits, writes>>

\* what no step of the handler changes
handlerInputs == <<event, environ, source_object, classifier_input, classified_error,
                   aggregationVars, keyVars, validationVars, cleanupVars>>
splitLocals == <<split_index, pages_added, corrupted_pages, chunk_results>>
uploadLocals == <<upload_attempt, last_error, wait_time>>
s3Vars == <<s3_operation, s3_attempts>>

\* a storage call as the client sees it: operation, calling function, chunk written
S3Call(name, from, idx) == Some([name |-> name, from |-> from, chunk_index |-> idx])

\* merged_config = _merge_configuration(config)
Merged == merge_configuration(event.config, environ)

\* total_tokens of analyze_pdf_tokens
ObjectTokens == SumPages(source_object.tokens, 0, Len(source_object.tokens) - 1)

\* selection_result of analyze_pdf_tokens
Selection ==
    select_strategy_and_check_thresholds(Len(source_object.tokens), ObjectTokens,
                                         SelectorView(Merged))

\* handler up to the call of analyze_pdf_tokens
AnalysisReached ==
    /\ pc = "handler"
    /\ EventValid(event)
    /\ validate_configuration(Merged)

\* 'tokenAnalysis' of both success responses
TokenAnalysisOf(tokens, pages) == Some([totalTokens |-> tokens, totalPages |-> pages])

\* ---- handler: from entry to the result of analyze_pdf_tokens ---------------

\* a "raise ValueError" of the event validation, caught by "except Exception"
HandlerRejectsEvent ==
    /\ pc = "handler"
    /\ ~EventValid(event)
    /\ response' = Some(create_error_response(event,
                            ClassifyUnknownError(MsgInvalidEvent, "ValueError",
                                                 EventErrorMessage(event))))
    /\ pc' = "handler_returned"
    /\ UNCHANGED <<chunkVars, selVars, retryVars, handlerInputs, merged_config, caller,
                   splitLocals, uploadLocals, s3Vars, storage>>

\* "if not validate_configuration(merged_config): raise ConfigurationError"
HandlerRejectsConfiguration ==
    /\ pc = "handler"
    /\ EventValid(event)
    /\ ~validate_configuration(Merged)
    /\ merged_config' = Some(Merged)
    /\ response' = Some(create_error_response(event,
                            PDFChunkingError("Invalid chunking configuration",
                                             "ConfigurationError", FALSE, {})))
    /\ pc' = "handler_returned"
    /\ UNCHANGED <<chunkVars, selVars, retryVars, handlerInputs, caller,
                   splitLocals, uploadLocals, s3Vars, storage>>

\* analyze_pdf_tokens: s3.get_object raises ClientError; it is re-raised with the
\* same code and handler's "except ClientError" classifies it
HandlerAnalyzeReadFails ==
    /\ AnalysisReached
    /\ merged_config' = Some(Merged)
    /\ s3_operation' = S3Call("get_object", "analyze_pdf_tokens", -1)
    /\ s3_attempts' = 1
    /\ \E code \in GetObjectErrorCodes :
          response' = Some(create_error_response(event, classify_s3_error(code)))
    /\ pc' = "handler_returned"
    /\ UNCHANGED <<chunkVars, selVars, retryVars, handlerInputs, caller,
                   splitLocals, uploadLocals, storage>>

\* analyze_pdf_tokens: the object does not start with %PDF-
HandlerAnalyzeNotPdf ==
    /\ AnalysisReached
    /\ source_object.kind = "not_pdf"
    /\ merged_config' = Some(Merged)
    /\ s3_operation' = S3Call("get_object", "analyze_pdf_tokens", -1)
    /\ s3_attempts' = 1
    /\ response' = Some(create_error_response(event,
                            ClassifyUnknownError(MsgNotValidPdf, "Exception",
                                                 "Failed to analyze PDF")))
    /\ pc' = "handler_returned"
    /\ UNCHANGED <<chunkVars, selVars, retryVars, handlerInputs, caller,
                   splitLocals, uploadLocals, storage>>

\* analyze_pdf_tokens: PyPDF2 cannot read the pages of an encrypted document; the
\* error is wrapped in Exception("Failed to analyze PDF ...")
HandlerAnalyzeLibraryError ==
    /\ AnalysisReached
    /\ source_object.kind = "encrypted"
    /\ merged_config' = Some(Merged)
    /\ s3_operation' = S3Call("get_object", "analyze_pdf_tokens", -1)
    /\ s3_attempts' = 1
    /\ \E library_msg \in LibraryMessages :
          response' = Some(create_error_response(event,
                               ClassifyUnknownError(MsgAnalyzeFailed(library_msg), "Exception",
                                                    "Failed to analyze PDF")))
    /\ pc' = "handler_returned"
    /\ UNCHANGED <<chunkVars, selVars, retryVars, handlerInputs, caller,
                   splitLocals, uploadLocals, storage>>

\* "if not token_analysis['requires_chunking']": return the analysis only
HandlerReturnsAnalysis ==
    /\ AnalysisReached
    /\ source_object.kind \in {"pdf", "encrypted"}
    /\ ~Selection.requires_chunking
    /\ merged_config' = Some(Merged)
    /\ s3_operation' = S3Call("get_object", "analyze_pdf_tokens", -1)
    /\ s3_attempts' = 1
    /\ total_pages' = Len(source_object.tokens)
    /\ tokens_per_page' = source_object.tokens
    /\ total_tokens' = ObjectTokens
    /\ config' = SelectorView(Merged)
    /\ selection_result' = Some(Selection)
    /\ response' = Some([documentId |-> TheValue(event.documentId),
                         requiresChunking |-> FALSE, error |-> Absent,
                         tokenAnalysis |-> TokenAnalysisOf(ObjectTokens,
                                                           Len(source_object.tokens)),
                         chunks |-> Absent])
    /\ pc' = "handler_returned"
    /\ UNCHANGED <<chunk_size, overlap_pages, max_tokens_per_chunk, target_tokens,
                   max_pages, overlap_tokens, current_page, page_num,
                   current_chunk_start, current_chunk_tokens, current_chunk_pages,
                   chunk_index, chunks>>
    /\ UNCHANGED <<retryVars, handlerInputs, caller, splitLocals, uploadLocals, storage>>

\* chunking is required: _calculate_chunk_boundaries calls the calculator of the
\* merged strategy with the merged parameters
HandlerCalculatesBoundaries ==
    /\ AnalysisReached
    /\ source_object.kind \in {"pdf", "encrypted"}
    /\ Selection.requires_chunking
    /\ merged_config' = Some(Merged)
    /\ s3_operation' = S3Call("get_object", "analyze_pdf_tokens", -1)
    /\ s3_attempts' = 1
    /\ total_pages' = Len(source_object.tokens)
    /\ tokens_per_page' = source_object.tokens
    /\ total_tokens' = ObjectTokens
    /\ config' = SelectorView(Merged)
    /\ selection_result' = Some(Selection)
    /\ chunk_size' = Merged.chunkSize
    /\ overlap_pages' = Merged.overlapPages
    /\ max_tokens_per_chunk' = Merged.maxTokensPerChunk
    /\ target_tokens' = Merged.targetTokensPerChunk
    /\ max_pages' = Merged.maxPagesPerChunk
    /\ overlap_tokens' = Merged.overlapTokens
    /\ caller' = Some("_calculate_chunk_boundaries")
    /\ pc' = IF Merged.strategy = "fixed-pages" THEN "fixed_loop"
             ELSE IF Merged.strategy = "token-based" THEN "token_loop"
             ELSE "hybrid_loop"
    /\ UNCHANGED <<current_page, page_num, current_chunk_start, current_chunk_tokens,
                   current_chunk_pages, chunk_index, chunks>>
    /\ UNCHANGED <<retryVars, handlerInputs, splitLocals, uploadLocals, storage, response>>

\* ---- _split_and_upload_pdf ---------------------------------------------------

\* the calculator has returned chunks_metadata to the handler
SplitReached ==
    /\ pc = "done"
    /\ caller # Absent

\* s3_client.get_object raises ClientError: "raise classify_s3_error(e, ...)"
SplitReadFails ==
    /\ SplitReached
    /\ s3_operation' = S3Call("get_object", "_split_and_upload_pdf", -1)
    /\ s3_attempts' = 1
    /\ \E code \in GetObjectErrorCodes :
          response' = Some(create_error_response(event, classify_s3_error(code)))
    /\ pc' = "handler_returned"
    /\ UNCHANGED <<chunkVars, selVars, retryVars, handlerInputs, merged_config, caller,
                   splitLocals, uploadLocals, storage>>

\* "if pdf_reader.is_encrypted: raise EncryptedPDFError"
SplitFindsEncrypted ==
    /\ SplitReached
    /\ source_object.kind = "encrypted"
    /\ s3_operation' = S3Call("get_object", "_split_and_upload_pdf", -1)
    /\ s3_attempts' = 1
    /\ response' = Some(create_error_response(event,
                            PDFChunkingError("PDF is encrypted", "EncryptedPDF", FALSE, {})))
    /\ pc' = "handler_returned"
    /\ UNCHANGED <<chunkVars, selVars, retryVars, handlerInputs, merged_config, caller,
                   splitLocals, uploadLocals, storage>>

\* the source is read and opened; "chunk_results = []", "corrupted_pages = []"
SplitOpensSource ==
    /\ SplitReached
    /\ source_object.kind = "pdf"
    /\ s3_operation' = S3Call("get_object", "_split_and_upload_pdf", -1)
    /\ s3_attempts' = 1
    /\ split_index' = 1
    /\ pages_added' = 0
    /\ corrupted_pages' = <<>>
    /\ chunk_results' = <<>>
    /\ pc' = "split_loop"
    /\ UNCHANGED <<chunkVars, selVars, retryVars, handlerInputs, merged_config, caller,
                   uploadLocals, storage, response>>

\* the boundary the loop "for chunk_meta in chunks_metadata" is at
ChunkMeta == chunks[split_index]

\* one boundary, "if pages_added == 0: continue"
SplitSkipsChunk ==
    /\ pc = "split_loop"
    /\ split_index <= Len(chunks)
    /\ CopiedPages(source_object, ChunkMeta.start_page, ChunkMeta.end_page) = {}
    /\ pages_added' = 0
    /\ corrupted_pages' = corrupted_pages
           \o FailedPages(source_object, ChunkMeta.start_page, ChunkMeta.end_page)
    /\ split_index' = split_index + 1
    /\ UNCHANGED <<pc, chunkVars, selVars, retryVars, handlerInputs, merged_config, caller,
                   chunk_results, uploadLocals, s3Vars, storage, response>>

\* one boundary, pdf_writer.write raises: "raise CorruptedPDFError"
SplitWriteFails ==
    /\ pc = "split_loop"
    /\ split_index <= Len(chunks)
    /\ CopiedPages(source_object, ChunkMeta.start_page, ChunkMeta.end_page) # {}
    /\ pages_added' =
           Cardinality(CopiedPages(source_object, ChunkMeta.start_page, ChunkMeta.end_page))
    /\ corrupted_pages' = corrupted_pages
           \o FailedPages(source_object, ChunkMeta.start_page, ChunkMeta.end_page)
    /\ response' = Some(create_error_response(event,
                            PDFChunkingError("Failed to create chunk", "CorruptedPDF", FALSE,
                                             {"chunk_index"})))
    /\ pc' = "handler_returned"
    /\ UNCHANGED <<chunkVars, selVars, retryVars, handlerInputs, merged_config, caller,
                   split_index, chunk_results, uploadLocals, s3Vars, storage>>

\* one boundary, pages copied and written to bytes: _upload_chunk_with_retry is entered
SplitBuildsChunk ==
    /\ pc = "split_loop"
    /\ split_index <= Len(chunks)
    /\ CopiedPages(source_object, ChunkMeta.start_page, ChunkMeta.end_page) # {}
    /\ pages_added' =
           Cardinality(CopiedPages(source_object, ChunkMeta.start_page, ChunkMeta.end_page))
    /\ corrupted_pages' = corrupted_pages
           \o FailedPages(source_object, ChunkMeta.start_page, ChunkMeta.end_page)
    /\ upload_attempt' = 0
    /\ last_error' = Absent
    /\ wait_time' = 0
    /\ s3_operation' = S3Call("put_object", "_upload_chunk_with_retry", ChunkMeta.chunk_index)
    /\ s3_attempts' = 0
    /\ pc' = "upload"
    /\ UNCHANGED <<chunkVars, selVars, retryVars, handlerInputs, merged_config, caller,
                   split_index, chunk_results, storage, response>>

\* ---- _upload_chunk_with_retry ------------------------------------------------

\* the chunk_result appended after the upload of the current boundary
ChunkResult ==
    [chunkId |-> ChunkId(TheValue(event.documentId), ChunkMeta.chunk_index),
     chunkIndex |-> ChunkMeta.chunk_index,
     totalChunks |-> Len(chunks),
     startPage |-> ChunkMeta.start_page,
     endPage |-> ChunkMeta.end_page,
     pageCount |-> pages_added,
     estimatedTokens |-> SumPages(tokens_per_page, ChunkMeta.start_page, ChunkMeta.end_page),
     bucket |-> TheValue(event.bucket),
     key |-> ChunkKey(TheValue(event.documentId), ChunkMeta.chunk_index)]

\* put_object succeeds: the function returns, the chunk_result is appended and the
\* loop of _split_and_upload_pdf goes on
UploadSucceeds ==
    /\ pc = "upload"
    /\ InUploadRange(upload_attempt)
    /\ s3_attempts' = s3_attempts + 1
    /\ storage' = storage \cup {ChunkKey(TheValue(event.documentId), ChunkMeta.chunk_index)}
    /\ chunk_results' = Append(chunk_results, ChunkResult)
    /\ split_index' = split_index + 1
    /\ upload_attempt' = 0
    /\ last_error' = Absent
    /\ wait_time' = 0
    /\ pc' = "split_loop"
    /\ UNCHANGED <<chunkVars, selVars, retryVars, handlerInputs, merged_config, caller,
                   pages_added, corrupted_pages, s3_operation, response>>

\* put_object fails with a code that is not retried
UploadFailsNonRetryable ==
    /\ pc = "upload"
    /\ InUploadRange(upload_attempt)
    /\ s3_attempts' = s3_attempts + 1
    /\ \E code \in PutObjectErrorCodes \cap NonRetryableUploadCodes :
          /\ last_error' = Some(code)
          /\ response' = Some(create_error_response(event, classify_s3_error(code)))
    /\ pc' = "handler_returned"
    /\ UNCHANGED <<chunkVars, selVars, retryVars, handlerInputs, merged_config, caller,
                   splitLocals, upload_attempt, wait_time, s3_operation, storage>>

\* put_object fails with another code and an attempt is left: sleep, next attempt
UploadFailsAndSleeps ==
    /\ pc = "upload"
    /\ InUploadRange(upload_attempt)
    /\ UploadCanRetry(upload_attempt)
    /\ s3_attempts' = s3_attempts + 1
    /\ \E code \in PutObjectErrorCodes \ NonRetryableUploadCodes, j \in UploadJitterTenths :
          /\ last_error' = Some(code)
          /\ wait_time' = 10 * Pow2(upload_attempt) + j
    /\ upload_attempt' = upload_attempt + 1
    /\ UNCHANGED <<pc, chunkVars, selVars, retryVars, handlerInputs, merged_config, caller,
                   splitLocals, s3_operation, storage, response>>

\* put_object fails with another code on the last attempt: the classified error
\* is raised and handler returns it
UploadFailsAndRaises ==
    /\ pc = "upload"
    /\ InUploadRange(upload_attempt)
    /\ ~UploadCanRetry(upload_attempt)
    /\ s3_attempts' = s3_attempts + 1
    /\ \E code \in PutObjectErrorCodes \ NonRetryableUploadCodes :
          /\ last_error' = Some(code)
          /\ response' = Some(create_error_response(event, classify_s3_error(code)))
    /\ pc' = "handler_returned"
    /\ UNCHANGED <<chunkVars, selVars, retryVars, handlerInputs, merged_config, caller,
                   splitLocals, upload_attempt, wait_time, s3_operation, storage>>

\* ---- the end of _split_and_upload_pdf and of handler -------------------------

\* "if not chunk_results: raise CorruptedPDFError"
SplitCreatedNothing ==
    /\ pc = "split_loop"
    /\ split_index > Len(chunks)
    /\ chunk_results = <<>>
    /\ response' = Some(create_error_response(event,
                            PDFChunkingError("Failed to create any valid chunks", "CorruptedPDF",
                                             FALSE, {"corrupted_pages"})))
    /\ pc' = "handler_returned"
    /\ UNCHANGED <<chunkVars, selVars, retryVars, handlerInputs, merged_config, caller,
                   splitLocals, uploadLocals, s3Vars, storage>>

\* "return chunk_results" and the chunking response of handler
HandlerReturnsChunks ==
    /\ pc = "split_loop"
    /\ split_index > Len(chunks)
    /\ chunk_results # <<>>
    /\ response' = Some([documentId |-> TheValue(event.documentId),
                         requiresChunking |-> TRUE, error |-> Absent,
                         tokenAnalysis |-> TokenAnalysisOf(total_tokens, total_pages),
                         chunks |-> Some(chunk_results)])
    /\ pc' = "handler_returned"
    /\ UNCHANGED <<chunkVars, selVars, retryVars, handlerInputs, merged_config, caller,
                   splitLocals, uploadLocals, s3Vars, storage>>

NextHandler ==
    \/ HandlerRejectsEvent \/ HandlerRejectsConfiguration
    \/ HandlerAnalyzeReadFails \/ HandlerAnalyzeNotPdf \/ HandlerAnalyzeLibraryError
    \/ HandlerReturnsAnalysis \/ HandlerCalculatesBoundaries
    \/ FixedLoop \/ FixedReturn
    \/ TokenFinalize \/ TokenAddPage \/ TokenReturn
    \/ HybridFinalize \/ HybridAddPage \/ HybridLoopExit \/ HybridResplit \/ HybridReturn
    \/ SplitReadFails \/ SplitFindsEncrypted \/ SplitOpensSource
    \/ SplitSkipsChunk \/ SplitWriteFails \/ SplitBuildsChunk
    \/ UploadSucceeds \/ UploadFailsNonRetryable \/ UploadFailsAndSleeps
    \/ UploadFailsAndRaises
    \/ SplitCreatedNothing \/ HandlerReturnsChunks

SpecHandler == InitHandler /\ [][NextHandler]_vars

-----------------------------------------------------------------------------
(* Properties of the handler *)

\* the error of a response, when it has one
ResponseError == TheValue(TheValue(response).error)

SurfacedRecoverableError ==
    /\ pc = "handler_returned"
    /\ response # Absent
    /\ TheValue(response).error # Absent
    /\ ResponseError.recoverable

\* C10: whenever the handler returns an error response with recoverable = true, the
\* storage operation that failed (the read of the source document or the write
\* of a chunk) has been attempted the full bounded number of times, never once only.
C10_RecoverableOnlyAfterRetries ==
    SurfacedRecoverableError =>
        /\ s3_attempts > 1
        /\ s3_attempts = UploadMaxRetries

\* nothing failed on the way to a response without error: the event and the
\* configuration are valid, the source was read, and either no chunking was
\* needed or every boundary was processed and at least one chunk was stored
NothingFailed ==
    /\ EventValid(event)
    /\ validate_configuration(Merged)
    /\ source_object.kind # "not_pdf"
    /\ selection_result # Absent
    /\ \/ ~TheValue(selection_result).requires_chunking
       \/ /\ split_index > Len(chunks)
          /\ chunk_results # <<>>
          /\ \A k \in 1..Len(chunk_results) : chunk_results[k].key \in storage

\* C11: the handler never raises; whenever it has finished, it has returned a
\* response; a response is without error only when nothing failed, and every
\* error response has the form {documentId, requiresChunking: false,
\* error: {type, message, recoverable, details}} and carries no chunks list.
C11_ErrorResponseForm ==
    /\ pc # "raised"
    /\ pc = "handler_returned" =>
        /\ response # Absent
        /\ {"documentId", "requiresChunking", "error"} \subseteq DOMAIN TheValue(response)
        /\ TheValue(response).documentId = ResponseDocumentId(event)
        /\ TheValue(response).error = Absent => NothingFailed
        /\ TheValue(response).error # Absent =>
            /\ TheValue(response).requiresChunking = FALSE
            /\ TheValue(response).chunks = Absent
            /\ DOMAIN ResponseError = {"type", "message", "recoverable", "details"}
            /\ ResponseError.recoverable \in BOOLEAN

\* an upload that still fails on its last attempt, after an earlier chunk was
\* stored, ends in an error response
C11_Witness ==
    /\ pc = "handler_returned"
    /\ TheValue(response).error # Absent
    /\ ResponseError.type = "S3Throttling"
    /\ s3_attempts = UploadMaxRetries
    /\ storage # {}

\* ---- the merged configuration -------------------------------------------------

CanonicalKeys == {"strategy", "pageThreshold", "tokenThreshold", "chunkSize", "overlapPages",
                  "maxTokensPerChunk", "overlapTokens", "targetTokensPerChunk",
                  "maxPagesPerChunk"}

\* the names under which a request may carry the value of a canonical key
Spellings(k) ==
    CASE k = "strategy" -> {"strategy", "chunkingStrategy"}
      [] k = "chunkSize" -> {"chunkSize", "chunk_size"}
      [] OTHER -> {k}

\* the built-in default of a canonical key
BuiltIn(k) ==
    CASE k = "strategy" -> "hybrid"
      [] k = "pageThreshold" -> 100
      [] k = "tokenThreshold" -> 150000
      [] k = "chunkSize" -> 50
      [] k = "overlapPages" -> 5
      [] k = "maxTokensPerChunk" -> 100000
      [] k = "overlapTokens" -> 5000
      [] k = "targetTokensPerChunk" -> 80000
      [] k = "maxPagesPerChunk" -> 99

Copyable(b) ==
    {p \in b.start_page..b.end_page :
        p < Len(source_object.tokens) /\ p \notin source_object.unreadable}

\* the chunk results made for boundary b
MadeFor(b) == {k \in DOMAIN chunk_results : chunk_results[k].chunkIndex = b.chunk_index}

\* the loop over the boundaries has ended
SplitLoopEnded ==
    /\ pc = "handler_returned"
    /\ caller # Absent
    /\ split_index > Len(chunks)

\* C18: a page that cannot be copied is skipped alone: after a boundary has been
\* processed there is an artifact for it exactly when one of its pages could
\* be copied, with pageCount the number of pages copied, and a boundary
\* without copied pages leaves no artifact and nothing in storage; the pages
\* skipped are recorded; when the loop ends without any artifact the split
\* fails with the non-recoverable CorruptedPDF error, otherwise the artifacts
\* are returned.
C18_SplitToleratesPageFailures ==
    /\ (pc = "split_loop" \/ SplitLoopEnded) =>
           /\ \A i \in 1..(split_index - 1) :
                  LET b == chunks[i]
                  IN  /\ (MadeFor(b) # {}) <=> (Copyable(b) # {})
                      /\ \A k \in MadeFor(b) :
                             /\ chunk_results[k].pageCount = Cardinality(Copyable(b))
                             /\ chunk_results[k].key \in storage
                      /\ Cardinality(MadeFor(b)) <= 1
           /\ Cardinality(storage) = Len(chunk_results)
           /\ \A p \in 0..(Len(source_object.tokens) - 1) :
                  (\E k \in DOMAIN corrupted_pages : corrupted_pages[k] = p)
                      <=> /\ p \in source_object.unreadable
                          /\ \E i \in 1..(split_index - 1) :
                                 p \in chunks[i].start_page..chunks[i].end_page
    /\ SplitLoopEnded =>
           IF \A i \in DOMAIN chunks : Copyable(chunks[i]) = {}
           THEN /\ TheValue(response).error # Absent
                /\ ResponseError.type = "CorruptedPDF"
                /\ ~ResponseError.recoverable
                /\ storage = {}
           ELSE /\ TheValue(response).error = Absent
                /\ TheValue(response).chunks = Some(chunk_results)

\* the first page of a two-page boundary cannot be copied: the artifact holds
\* the other page, and the next boundary is processed as well
C18_Witness ==
    /\ SplitLoopEnded
    /\ TheValue(response).error = Absent
    /\ corrupted_pages = <<0>>
    /\ Len(chunk_results) = 2
    /\ chunk_results[1].startPage = 0
    /\ chunk_results[1].endPage = 1
    /\ chunk_results[1].pageCount = 1

\* the write of a chunk has failed and the handler has returned the error
UploadFailed ==
    /\ pc = "handler_returned"
    /\ s3_operation # Absent
    /\ TheValue(s3_operation).name = "put_object"
    /\ last_error # Absent

\* the error_type and the recoverable flag of the error of a put_object code
ExpectedUploadError(code) ==
    CASE code = "AccessDenied" -> <<"S3AccessDenied", FALSE>>
      [] code = "NoSuchBucket" -> <<"S3NotFound", FALSE>>
      [] code = "InvalidBucketName" -> <<"S3Error_InvalidBucketName", FALSE>>
      [] code = "SlowDown" -> <<"S3Throttling", TRUE>>
      [] code = "InternalError" -> <<"S3Error_InternalError", TRUE>>
      [] code = "RequestTimeout" -> <<"S3Error_RequestTimeout", FALSE>>

\* C19: _upload_chunk_with_retry makes another attempt only after a failure
\* that is not access denied, no such bucket or invalid bucket name, and only
\* after a sleep; it makes at most three attempts; it returns with the first
\* attempt that succeeds; a failure with one of the three codes ends it at
\* once, and any other failure ends it when it is the third; in both cases
\* the classified error is what the handler returns.
C19_UploadRetryContract ==
    /\ pc = "upload" =>
           /\ s3_attempts = upload_attempt
           /\ s3_attempts < 3
           /\ (last_error = Absent) <=> (s3_attempts = 0)
           /\ last_error # Absent =>
                  /\ TheValue(last_error)
                         \notin {"AccessDenied", "NoSuchBucket", "InvalidBucketName"}
                  /\ wait_time >= 10 * Pow2(s3_attempts - 1)
                  /\ wait_time <= 10 * Pow2(s3_attempts - 1) + 5
    /\ UploadFailed =>
           /\ TheValue(response).error # Absent
           /\ <<ResponseError.type, ResponseError.recoverable>>
                  = ExpectedUploadError(TheValue(last_error))
           /\ IF TheValue(last_error) \in {"AccessDenied", "NoSuchBucket", "InvalidBucketName"}
              THEN s3_attempts = upload_attempt + 1 /\ s3_attempts <= 3
              ELSE s3_attempts = 3
           /\ ChunkKey(TheValue(event.documentId), TheValue(s3_operation).chunk_index)
                  \notin storage
    /\ (pc = "split_loop" /\ s3_operation # Absent
           /\ TheValue(s3_operation).name = "put_object") =>
           /\ s3_attempts \in 1..3
           /\ ChunkKey(TheValue(event.documentId), TheValue(s3_operation).chunk_index)
                  \in storage

\* a write that is throttled twice and then succeeds
C19_Witness ==
    /\ pc = "split_loop"
    /\ s3_operation # Absent
    /\ TheValue(s3_operation).name = "put_object"
    /\ s3_attempts = 3
    /\ Len(chunk_results) = 1
    /\ chunk_results[1].key \in storage

-----------------------------------------------------------------------------
(* error_handling.py: the classifiers called directly, and the error classes *)

\* error codes of a ClientError: those of the storage calls above, the other
\* spellings classify_s3_error knows, and 'Unknown' for a response without code
AllS3Codes ==
    GetObjectErrorCodes \cup PutObjectErrorCodes
        \cup {"404", "Throttling", "RequestLimitExceeded", "Unknown"}

\* the words classify_pdf_error looks for in a message
PdfKeywords == {"encrypted", "password", "invalid", "not a pdf", "not a valid pdf",
                "magic", "corrupt", "damaged", "malformed"}

\* type(error).__name__ of the exceptions classified
ErrorTypeNames == {"PdfReadError", "Exception", "ValueError"}

ClassifierInputs ==
    {[function |-> "classify_s3_error", code |-> c, msg |-> {}, type_name |-> "ClientError"] :
        c \in AllS3Codes}
    \cup {[function |-> "classify_pdf_error", code |-> "", msg |-> m, type_name |-> t] :
            m \in SUBSET PdfKeywords, t \in ErrorTypeNames}

InitClassify ==
    /\ pc = "classify"
    /\ classifier_input \in ClassifierInputs
    /\ classified_error = Absent
    /\ aggregation_event = Absent
    /\ aggregation_result = Absent
    /\ splits = <<>>
    /\ writes = {}
    /\ ServicesIdle
    /\ event = Absent
    /\ environ = Absent
    /\ source_object = Absent
    /\ merged_config = Absent
    /\ caller = Absent
    /\ split_index = 0
    /\ pages_added = 0
    /\ corrupted_pages = <<>>
    /\ chunk_results = <<>>
    /\ upload_attempt = 0
    /\ last_error = Absent
    /\ wait_time = 0
    /\ s3_operation = Absent
    /\ s3_attempts = 0
    /\ storage = {}
    /\ response = Absent
    /\ NoFixedArgs
    /\ ChunkerIdle
    /\ SelectorIdle
    /\ RetryIdle

ClassifyS3Error ==
    /\ pc = "classify"
    /\ classifier_input.function = "classify_s3_error"
    /\ classified_error' = Some(classify_s3_error(classifier_input.code))
    /\ pc' = "classified"
    /\ UNCHANGED <<chunkVars, selVars, retryVars, event, environ, source_object,
                   merged_config, caller, splitLocals, uploadLocals, s3Vars, storage,
                   response, classifier_input, aggregationVars, keyVars,
                   validationVars, cleanupVars>>

ClassifyPdfError ==
    /\ pc = "classify"
    /\ classifier_input.function = "classify_pdf_error"
    /\ classified_error' =
           Some(classify_pdf_error(classifier_input.msg, classifier_input.type_name))
    /\ pc' = "classified"
    /\ UNCHANGED <<chunkVars, selVars, retryVars, event, environ, source_object,
                   merged_config, caller, splitLocals, uploadLocals, s3Vars, storage,
                   response, classifier_input, aggregationVars, keyVars,
                   validationVars, cleanupVars>>

\* the chunking core as a source of errors: a run of the handler, or a direct
\* call of one of the classifiers
InitErrors == InitHandler \/ InitClassify

NextErrors == NextHandler \/ ClassifyS3Error \/ ClassifyPdfError

SpecErrors == InitErrors /\ [][NextErrors]_vars

\* error_type of the exception classes of error_handling.py
ErrorClassTypes ==
    {"InvalidPDFFormat", "CorruptedPDF", "EncryptedPDF", "S3AccessDenied", "S3NotFound",
     "S3Throttling", "DynamoDBWriteError", "ChunkingTimeout", "ConfigurationError"}

\* the classes constructed with recoverable=True
RecoverableClassTypes == {"S3Throttling", "DynamoDBWriteError"}

\* the errors produced in the current state
ProducedErrors ==
    (IF pc = "handler_returned" /\ TheValue(response).error # Absent
     THEN {ResponseError} ELSE {})
    \cup (IF classified_error # Absent THEN {TheValue(classified_error)} ELSE {})

\* C12 as stated: every error produced has a kind of the fixed taxonomy (the
\* nine error classes) and is recoverable exactly when that kind is throttled
\* or write failure.
C12_FixedTaxonomy ==
    \A err \in ProducedErrors :
        /\ err.type \in ErrorClassTypes
        /\ err.recoverable <=> err.type \in RecoverableClassTypes

\* error_type of the generic PDFChunkingError built for any other storage code
GenericS3Types ==
    {S3ErrorTypeName(c) :
        c \in AllS3Codes \ {"AccessDenied", "NoSuchKey", "NoSuchBucket", "404",
                            "SlowDown", "Throttling", "RequestLimitExceeded"}}

\* C12 amended: every error produced either has a kind of the fixed taxonomy
\* with the taxonomy's recoverable flag, or is a generic error: S3Error_<code>,
\* recoverable exactly for the codes ServiceUnavailable and InternalError, or
\* PDFProcessingError, UnexpectedError or DependencyError, never recoverable.
C12_TaxonomyOrGeneric ==
    \A err \in ProducedErrors :
        \/ /\ err.type \in ErrorClassTypes
           /\ err.recoverable <=> err.type \in RecoverableClassTypes
        \/ /\ err.type \in GenericS3Types
           /\ err.recoverable <=>
                  err.type \in {"S3Error_ServiceUnavailable", "S3Error_InternalError"}
        \/ /\ err.type \in {"PDFProcessingError", "UnexpectedError", "DependencyError"}
           /\ ~err.recoverable

\* classify_s3_error has returned the generic, recoverable error of InternalError
C12_Witness ==
    /\ pc = "classified"
    /\ classifier_input.code = "InternalError"
    /\ TheValue(classified_error).type = "S3Error_InternalError"
    /\ TheValue(classified_error).recoverable

\* ---- concurrent runs of _split_and_upload_pdf --------------------------------

\* boundaries of the longest run: its chunk indexes have one and two digits
MaxSplitChunks == 12

\* document ids that end in a digit, hold the separators of the key, or are
\* the prefix of another
KeyDocumentIds == {"a", "a1", "a/a", "a_chunk_1"}

\* two invocations of the chunking function at once, each at the start of its
\* loop over chunks_metadata; chunk_meta['chunk_index'] counts from 0
InitSplits ==
    /\ pc = "splits"
    /\ splits \in [1..2 -> [documentId : KeyDocumentIds,
                            total_chunks : {1, 2, MaxSplitChunks}, chunk_index : {0}]]
    /\ writes = {}
    /\ ServicesIdle
    /\ aggregation_event = Absent
    /\ aggregation_result = Absent
    /\ classifier_input = Absent
    /\ classified_error = Absent
    /\ event = Absent
    /\ environ = Absent
    /\ source_object = Absent
    /\ merged_config = Absent
    /\ caller = Absent
    /\ split_index = 0
    /\ pages_added = 0
    /\ corrupted_pages = <<>>
    /\ chunk_results = <<>>
    /\ upload_attempt = 0
    /\ last_error = Absent
    /\ wait_time = 0
    /\ s3_operation = Absent
    /\ s3_attempts = 0
    /\ storage = {}
    /\ response = Absent
    /\ NoFixedArgs
    /\ ChunkerIdle
    /\ SelectorIdle
    /\ RetryIdle

\* one run writes the chunk of its next boundary: s3_client.put_object(Key=chunk_key)
SplitWritesChunk ==
    /\ pc = "splits"
    /\ \E w \in DOMAIN splits :
          /\ splits[w].chunk_index < splits[w].total_chunks
          /\ writes' = writes \cup
                 {[key |-> ChunkKey(splits[w].documentId, splits[w].chunk_index),
                   documentId |-> splits[w].documentId,
                   chunkIndex |-> splits[w].chunk_index]}
          /\ splits' = [splits EXCEPT ![w].chunk_index = @ + 1]
    /\ UNCHANGED <<pc, chunkVars, selVars, retryVars, event, environ, source_object,
                   merged_config, caller, splitLocals, uploadLocals, s3Vars, storage,
                   response, classifier_input, classified_error, aggregationVars,
                   validationVars, cleanupVars>>

\* the writers of chunks: a run of the handler, or two runs of the split at once
InitKeys == InitHandler \/ InitSplits

NextKeys == NextHandler \/ SplitWritesChunk

SpecKeys == InitKeys /\ [][NextKeys]_vars

\* the text "{documentId}_chunk_{chunkIndex}" for an index below 100
ChunkIdText(document_id, idx) ==
    LET digits == <<"0", "1", "2", "3", "4", "5", "6", "7", "8", "9">>
    IN  Characters(document_id) \o <<"_", "c", "h", "u", "n", "k", "_">>
            \o (IF idx < 10 THEN <<digits[idx + 1]>>
                ELSE <<digits[(idx \div 10) + 1], digits[(idx % 10) + 1]>>)

\* C20: a chunk is written under a key that holds its chunkId,
\* {documentId}_chunk_{chunkIndex}; in every interleaving of two runs of the
\* split, two writes have the same key only if they have the same documentId
\* and the same chunkIndex; and no two chunks of one response share a key.
C20_KeysUniquePerChunk ==
    /\ \A a, b \in writes :
           a.key = b.key => (a.documentId = b.documentId /\ a.chunkIndex = b.chunkIndex)
    /\ \A a \in writes :
           LET id == ChunkIdText(a.documentId, a.chunkIndex)
           IN  \E n \in 1..(Len(a.key) - Len(id) + 1) :
                   SubSeq(a.key, n, n + Len(id) - 1) = id
    /\ \A k \in DOMAIN chunk_results :
           /\ chunk_results[k].chunkId
                  = ChunkIdText(TheValue(event.documentId), chunk_results[k].chunkIndex)
           /\ \A j \in DOMAIN chunk_results :
                  chunk_results[j].key = chunk_results[k].key => j = k

\* document "a" has written chunk 11 and document "a1" chunk 1
C20_Witness ==
    /\ pc = "splits"
    /\ \E a, b \in writes :
           /\ a.documentId = "a" /\ a.chunkIndex = 11
           /\ b.documentId = "a1" /\ b.chunkIndex = 1
           /\ a.key # b.key

\* ==========================================================================
\* aggregation/handler.py: the aggregation of the chunk results of a document
\* ==========================================================================

\* chunk results in a vote input, entities in an entity input
MaxChunkResults == 3
MaxEntities == 3

\* bool(x) of an optional string: a missing key, None and '' are falsy
Truthy(o) == o # Absent /\ TheValue(o) # ""

\* Python compares str values by code point; ord() of the characters of the
\* classification labels used as inputs
CodePoints(label) ==
    CASE label = "INVOICE"  -> <<73, 78, 86, 79, 73, 67, 69>>
      [] label = "INVOICES" -> <<73, 78, 86, 79, 73, 67, 69, 83>>
      [] label = "RECEIPT"  -> <<82, 69, 67, 69, 73, 80, 84>>
      [] label = "Contract" -> <<67, 111, 110, 116, 114, 97, 99, 116>>
      [] label = ""         -> <<>>

\* a < b for sequences of code points
RECURSIVE LexLess(_, _)
LexLess(a, b) ==
    IF a = <<>> THEN b # <<>>
    ELSE IF b = <<>> THEN FALSE
    ELSE IF a[1] < b[1] THEN TRUE
    ELSE IF a[1] > b[1] THEN FALSE
    ELSE LexLess(Tail(a), Tail(b))

\* result.get('error') is truthy: the chunk failed
never_failed(result) == FALSE

Failed(result) == Truthy(result.error)

\* calculate_chunks_summary
calculate_chunks_summary(results) ==
    LET total_chunks == Len(results)
        failed_chunks == Cardinality({i \in DOMAIN results : Failed(results[i])})
        successful_chunks == total_chunks - failed_chunks
    IN  [totalChunks |-> total_chunks,
         successfulChunks |-> successful_chunks,
         failedChunks |-> failed_chunks]

\* success_rate = successfulChunks / totalChunks; success_rate < 0.5.  The
\* quotient of two integers below 2^53 is below 0.5 as a float exactly when it
\* is below 1/2 as a rational.
SuccessRateAtMostHalf(successful_chunks, total_chunks) ==
    2 * successful_chunks <= total_chunks

SuccessRateBelowHalf(successful_chunks, total_chunks) ==
    2 * successful_chunks < total_chunks

\* the list "classifications" after the loop over chunk_results
RECURSIVE Classifications(_)
Classifications(results) ==
    IF results = <<>> THEN <<>>
    ELSE LET result == Head(results)
             rest == Classifications(Tail(results))
             classification_result == result.classificationResult
             classification == TheValue(classification_result).documentClassification
         IN  IF Failed(result) THEN rest
             ELSE IF classification_result = Absent THEN rest
             ELSE IF Truthy(classification) THEN <<TheValue(classification)>> \o rest
             ELSE rest

\* Counter(classifications)[cls]
RECURSIVE CountOf(_, _)
CountOf(classifications, cls) ==
    IF classifications = <<>> THEN 0
    ELSE (IF Head(classifications) = cls THEN 1 ELSE 0)
         + CountOf(Tail(classifications), cls)

\* the keys of Counter(classifications), in order of first occurrence, behind
\* the keys found so far
RECURSIVE CounterKeys(_, _)
CounterKeys(classifications, keys) ==
    IF classifications = <<>> THEN keys
    ELSE CounterKeys(Tail(classifications),
                     IF \E i \in DOMAIN keys : keys[i] = Head(classifications)
                     THEN keys
                     ELSE Append(keys, Head(classifications)))

\* list.sort() of a list of str: a stable sort by code points.  x goes behind
\* the elements of the sorted list that are not greater than x.
InsertLabel(sorted, x) ==
    LET k == Cardinality({i \in DOMAIN sorted :
                             ~LexLess(CodePoints(x), CodePoints(sorted[i]))})
    IN  SubSeq(sorted, 1, k) \o <<x>> \o SubSeq(sorted, k + 1, Len(sorted))

RECURSIVE InsertionSortLabels(_, _)
InsertionSortLabels(labels, sorted) ==
    IF labels = <<>> THEN sorted
    ELSE InsertionSortLabels(Tail(labels), InsertLabel(sorted, Head(labels)))

LabelsUnsorted(most_common) == most_common

\* most_common.sort()
SortLabels(most_common) == InsertionSortLabels(most_common, <<>>)

\* a float quotient n / d, kept as the pair of its operands; 0.0 is 0 / 1
Quotient(n, d) == <<n, d>>

\* aggregate_classifications: the tuple (classification, confidence)
aggregate_classifications(results) ==
    LET classifications == Classifications(results)
        keys == CounterKeys(classifications, <<>>)
        counts == {CountOf(classifications, keys[i]) : i \in DOMAIN keys}
        max_count == CHOOSE c \in counts : \A d \in counts : d <= c
        most_common == SelectSeq(keys, LAMBDA cls : CountOf(classifications, cls) = max_count)
        majority_classification == SortLabels(most_common)[1]
    IN  IF classifications = <<>> THEN <<Absent, Quotient(0, 1)>>
        ELSE <<Some(majority_classification),
               Quotient(CountOf(classifications, majority_classification),
                        Len(classifications))>>

\* 'page' in entity
PageNeverPresent(entity) == FALSE

HasPage(entity) == entity.page # Absent

\* the (chunk_index, entity) pairs, here chunk_idx, that the two nested loops of deduplicate_entities
\* visit, in order
RECURSIVE ChunkEntities(_)
ChunkEntities(results) ==
    IF results = <<>> THEN <<>>
    ELSE LET result == Head(results)
             rest == ChunkEntities(Tail(results))
             processing_result == result.processingResult
             chunk_idx == IF result.chunkIndex = Absent THEN 0
                            ELSE TheValue(result.chunkIndex)
             chunk_entities == TheValue(processing_result).entities
         IN  IF Failed(result) THEN rest
             ELSE IF processing_result = Absent THEN rest
             ELSE [j \in 1..Len(chunk_entities) |->
                      [chunk_idx |-> chunk_idx, entity |-> chunk_entities[j]]]
                  \o rest

\* the body of the inner loop, from the lists "entities" and
\* "seen_without_page" so far
RECURSIVE KeepEntities(_, _, _)
KeepEntities(visits, entities, seen_without_page) ==
    IF visits = <<>> THEN entities
    ELSE LET entity == Head(visits).entity
             entity_with_chunk ==
                 [entity EXCEPT !.chunkIndex = Some(Head(visits).chunk_idx)]
             key == <<TheValue(entity.type), TheValue(entity.value)>>
         IN  IF ~Truthy(entity.type) \/ ~Truthy(entity.value)
             THEN KeepEntities(Tail(visits), entities, seen_without_page)
             ELSE IF ~HasPage(entity)
             THEN IF key \notin seen_without_page
                  THEN KeepEntities(Tail(visits), Append(entities, entity_with_chunk),
                                    seen_without_page \cup {key})
                  ELSE KeepEntities(Tail(visits), entities, seen_without_page)
             ELSE KeepEntities(Tail(visits), Append(entities, entity_with_chunk),
                               seen_without_page)

\* a key that orders by page alone
sort_key_page_only(entity) ==
    <<0, IF entity.page = Absent THEN 0 ELSE TheValue(entity.page)>>

\* sort_key(entity) == (entity.get('chunkIndex', 0), entity.get('page', 0))
sort_key(entity) ==
    <<IF entity.chunkIndex = Absent THEN 0 ELSE TheValue(entity.chunkIndex),
      IF entity.page = Absent THEN 0 ELSE TheValue(entity.page)>>

\* a < b for tuples of two integers
TupleLess(a, b) == a[1] < b[1] \/ (a[1] = b[1] /\ a[2] < b[2])

\* entities.sort(key=sort_key): a stable sort.  x goes behind the elements of
\* the sorted list whose key is not greater than the key of x.
InsertEntity(sorted, x) ==
    LET k == Cardinality({i \in DOMAIN sorted :
                             ~TupleLess(sort_key(x), sort_key(sorted[i]))})
    IN  SubSeq(sorted, 1, k) \o <<x>> \o SubSeq(sorted, k + 1, Len(sorted))

RECURSIVE InsertionSortEntities(_, _)
InsertionSortEntities(entities, sorted) ==
    IF entities = <<>> THEN sorted
    ELSE InsertionSortEntities(Tail(entities), InsertEntity(sorted, Head(entities)))

EntitiesUnsorted(entities) == entities

SortEntities(entities) == InsertionSortEntities(entities, <<>>)

\* deduplicate_entities
deduplicate_entities(results) ==
    SortEntities(KeepEntities(ChunkEntities(results), <<>>, {}))

\* ---- inputs --------------------------------------------------------------

\* the lists of at most n elements of S
ListsUpTo(S, n) == UNION {[1..k -> S] : k \in 0..n}

ClassificationLabels == {"INVOICE", "INVOICES", "RECEIPT", "Contract"}

VoteResult(error, classificationResult) ==
    [chunkIndex |-> Absent, error |-> error,
     classificationResult |-> classificationResult, processingResult |-> Absent]

Classified(label) == Some([documentClassification |-> Some(label)])

\* chunk results that differ in their error and their classification
VoteChunkResults ==
    {VoteResult(Absent, Classified("INVOICE")),
     VoteResult(Absent, Classified("RECEIPT")),
     VoteResult(Some(""), Classified("RECEIPT")),
     VoteResult(Some("Processing failed"), Classified("INVOICE")),
     VoteResult(Some("Processing failed"), Absent),
     VoteResult(Absent, Absent),
     VoteResult(Absent, Some([documentClassification |-> Absent])),
     VoteResult(Absent, Classified(""))}

\* the labels of a list of chunk results, all successful
LabelledResults(labels) ==
    [i \in DOMAIN labels |->
        [VoteResult(Absent, Classified(labels[i])) EXCEPT !.chunkIndex = Some(i - 1)]]

VoteInputs ==
    {[i \in DOMAIN s |-> [s[i] EXCEPT !.chunkIndex = Some(i - 1)]] :
        s \in ListsUpTo(VoteChunkResults, MaxChunkResults)}
    \cup {LabelledResults(labels) : labels \in ListsUpTo(ClassificationLabels, MaxChunkResults)}

Entity(type, value, page, text, chunkIndex) ==
    [type |-> type, value |-> value, page |-> page, text |-> text, chunkIndex |-> chunkIndex]

EntityChoices ==
    {Entity(Some("NAME"), Some("John"), Absent, "a", Some(7)),
     Entity(Some("NAME"), Some("John"), Absent, "g", Absent),
     Entity(Some("NAME"), Some("Jane"), Absent, "b", Absent),
     Entity(Some("NAME"), Some("John"), Some(0), "c", Absent),
     Entity(Some("NAME"), Some("John"), Some(1), "d", Absent),
     Entity(Absent, Some("John"), Absent, "e", Absent),
     Entity(Some("NAME"), Some(""), Some(1), "f", Absent)}

\* the chunkIndex of the first and of the second chunk result, and the error
\* of the second
ChunkPairs ==
    {<<Some(0), Some(1), Absent>>, <<Some(1), Some(0), Absent>>,
     <<Some(0), Some(0), Absent>>, <<Absent, Some(1), Absent>>,
     <<Some(0), Some(1), Some("Processing failed")>>}

EntityResult(chunkIndex, error, entities) ==
    [chunkIndex |-> chunkIndex, error |-> error,
     classificationResult |-> Some([documentClassification |-> Some("INVOICE")]),
     processingResult |-> Some([entities |-> entities])]

\* two chunk results that share the entities es between them, the first k in
\* the first chunk result
EntityInput(es, k, ix) ==
    <<EntityResult(ix[1], Absent, SubSeq(es, 1, k)),
      EntityResult(ix[2], ix[3], SubSeq(es, k + 1, Len(es)))>>

AggregationEvent(documentId, chunkResults) ==
    Some([documentId |-> documentId, chunkResults |-> chunkResults])

\* events without a documentId or without chunkResults, and a complete one
ShortEvents ==
    {AggregationEvent(d, rs) :
        d \in {Absent, Some(""), Some("doc-123")},
        rs \in {Absent, Some(<<>>), Some(LabelledResults(<<"INVOICE">>))}}

InitAggregate ==
    /\ pc = "aggregation"
    /\ \/ \E rs \in VoteInputs : aggregation_event = AggregationEvent(Some("doc-123"), Some(rs))
       \/ \E es \in ListsUpTo(EntityChoices, MaxEntities) : \E k \in 0..Len(es), ix \in ChunkPairs :
              aggregation_event = AggregationEvent(Some("doc-123"), Some(EntityInput(es, k, ix)))
       \/ aggregation_event \in ShortEvents
    /\ aggregation_result = Absent
    /\ splits = <<>>
    /\ writes = {}
    /\ ServicesIdle
    /\ classifier_input = Absent
    /\ classified_error = Absent
    /\ event = Absent
    /\ environ = Absent
    /\ source_object = Absent
    /\ merged_config = Absent
    /\ caller = Absent
    /\ split_index = 0
    /\ pages_added = 0
    /\ corrupted_pages = <<>>
    /\ chunk_results = <<>>
    /\ upload_attempt = 0
    /\ last_error = Absent
    /\ wait_time = 0
    /\ s3_operation = Absent
    /\ s3_attempts = 0
    /\ storage = {}
    /\ response = Absent
    /\ NoFixedArgs
    /\ ChunkerIdle
    /\ SelectorIdle
    /\ RetryIdle

\* event.get('documentId') and event.get('chunkResults', [])
EventDocumentId == TheValue(aggregation_event).documentId

EventChunkResults ==
    LET given == TheValue(aggregation_event).chunkResults
    IN  IF given = Absent THEN <<>> ELSE TheValue(given)

\* what a call returned or raised
Outcome(function, exception, message, value) ==
    Some([function |-> function, raised |-> exception, message |-> message,
          value |-> value])

NoValue ==
    [documentId |-> Absent, classification |-> Absent,
     classificationConfidence |-> Quotient(0, 1), entities |-> <<>>,
     chunksSummary |-> calculate_chunks_summary(<<>>), partialResult |-> FALSE]

aggregationFrame ==
    <<chunkVars, selVars, retryVars, event, environ, source_object, merged_config,
      caller, splitLocals, uploadLocals, s3Vars, storage, response, classifier_input,
      classified_error, aggregation_event, keyVars, validationVars, cleanupVars>>

\* handler: "if not document_id" / "if not chunk_results": ValueError, logged
\* and raised again by the except clause
AggregationHandlerRaises ==
    /\ pc = "aggregation"
    /\ ~Truthy(EventDocumentId) \/ EventChunkResults = <<>>
    /\ aggregation_result' =
           Outcome("handler", Some("ValueError"),
                   IF ~Truthy(EventDocumentId) THEN "Missing required field: documentId"
                   ELSE "Missing required field: chunkResults",
                   NoValue)
    /\ pc' = "aggregated"
    /\ UNCHANGED aggregationFrame

\* handler: the AggregatedResult of a valid event
AggregationHandlerReturns ==
    /\ pc = "aggregation"
    /\ Truthy(EventDocumentId)
    /\ EventChunkResults # <<>>
    /\ LET chunks_summary == calculate_chunks_summary(EventChunkResults)
           partial_result == SuccessRateBelowHalf(chunks_summary.successfulChunks,
                                                  chunks_summary.totalChunks)
           aggregated == aggregate_classifications(EventChunkResults)
           entities == deduplicate_entities(EventChunkResults)
       IN  aggregation_result' =
               Outcome("handler", Absent, "",
                       [documentId |-> EventDocumentId,
                        classification |-> aggregated[1],
                        classificationConfidence |-> aggregated[2],
                        entities |-> entities,
                        chunksSummary |-> chunks_summary,
                        partialResult |-> partial_result])
    /\ pc' = "aggregated"
    /\ UNCHANGED aggregationFrame

\* a direct call of aggregate_classifications(chunk_results)
AggregateClassifications ==
    /\ pc = "aggregation"
    /\ LET aggregated == aggregate_classifications(EventChunkResults)
       IN  aggregation_result' =
               Outcome("aggregate_classifications", Absent, "",
                       [NoValue EXCEPT !.classification = aggregated[1],
                                       !.classificationConfidence = aggregated[2]])
    /\ pc' = "aggregated"
    /\ UNCHANGED aggregationFrame

\* a direct call of deduplicate_entities(chunk_results)
DeduplicateEntities ==
    /\ pc = "aggregation"
    /\ aggregation_result' =
           Outcome("deduplicate_entities", Absent, "",
                   [NoValue EXCEPT !.entities = deduplicate_entities(EventChunkResults)])
    /\ pc' = "aggregated"
    /\ UNCHANGED aggregationFrame

NextAggregate ==
    \/ AggregationHandlerRaises
    \/ AggregationHandlerReturns
    \/ AggregateClassifications
    \/ DeduplicateEntities

SpecAggregate == InitAggregate /\ [][NextAggregate]_vars

\* the call that produced the outcome, its input and its value
Called(function) ==
    /\ pc = "aggregated"
    /\ TheValue(aggregation_result).function = function

Returned(function) ==
    /\ Called(function)
    /\ TheValue(aggregation_result).raised = Absent

ReturnedValue == TheValue(aggregation_result).value

\* ---- properties of the aggregation ---------------------------------------

\* the quotient q has the value n / d
SameQuotient(q, n, d) == q[1] * d = n * q[2]

\* the chunk results of the input that have an error, and those that vote: no
\* error and a classification
ErrorSet(results) ==
    {i \in DOMAIN results : results[i].error \notin {Absent, Some("")}}

Voters(results) ==
    {i \in DOMAIN results \ ErrorSet(results) :
        /\ results[i].classificationResult # Absent
        /\ TheValue(results[i].classificationResult).documentClassification
               \notin {Absent, Some("")}}

VoteOf(results, i) ==
    TheValue(TheValue(results[i].classificationResult).documentClassification)

VotesFor(results, label) ==
    Cardinality({i \in Voters(results) : VoteOf(results, i) = label})

\* label a is lexicographically smaller than label b: they agree on the first
\* k characters, and then a ends or has the smaller character
LabelBefore(a, b) ==
    LET x == CodePoints(a)
        y == CodePoints(b)
    IN  \E k \in 0..Len(x) :
            /\ k <= Len(y)
            /\ \A i \in 1..k : x[i] = y[i]
            /\ \/ k = Len(x) /\ k < Len(y)
               \/ k < Len(x) /\ k < Len(y) /\ x[k + 1] < y[k + 1]

ClassificationReturned ==
    Returned("aggregate_classifications") \/ Returned("handler")

NoSuccessfulChunk ==
    ErrorSet(EventChunkResults) = DOMAIN EventChunkResults

NoClassification ==
    /\ ReturnedValue.classification = Absent
    /\ SameQuotient(ReturnedValue.classificationConfidence, 0, 1)

\* C14 (as claimed): for an input whose list of chunk results is empty, or in
\* which every chunk result has an error, the aggregation does not fail and
\* yields classification None with confidence 0.0.
C14_NoVotesNoFailure ==
    (/\ Called("aggregate_classifications")
        \/ (Called("handler") /\ Truthy(EventDocumentId))
     /\ NoSuccessfulChunk)
        => (TheValue(aggregation_result).raised = Absent /\ NoClassification)

\* C14 (amended): aggregate_classifications returns (None, 0.0) for such an
\* input; the handler returns classification None with confidence 0.0 when
\* the list is not empty and every chunk result has an error, and raises
\* ValueError for an empty list.
C14_NoVotesOrRejected ==
    /\ (Called("aggregate_classifications") /\ NoSuccessfulChunk)
           => (TheValue(aggregation_result).raised = Absent /\ NoClassification)
    /\ (Called("handler") /\ Truthy(EventDocumentId) /\ NoSuccessfulChunk)
           => IF EventChunkResults = <<>>
              THEN /\ TheValue(aggregation_result).raised = Some("ValueError")
                   /\ TheValue(aggregation_result).message
                          = "Missing required field: chunkResults"
              ELSE /\ TheValue(aggregation_result).raised = Absent
                   /\ NoClassification

\* the handler returns for two failed chunks, one of them with a classification
C14_Witness ==
    /\ Returned("handler")
    /\ Len(EventChunkResults) = 2
    /\ NoSuccessfulChunk
    /\ \E i \in DOMAIN EventChunkResults :
           EventChunkResults[i].classificationResult = Classified("INVOICE")
    /\ NoClassification

\* C15: for a non-empty list of chunk results the handler returns normally,
\* with totalChunks the number of results, failedChunks the number of results
\* with an error, successfulChunks their difference, and partialResult true
\* exactly when 2 * successfulChunks < totalChunks.
C15_SummaryAndPartialFlag ==
    (Called("handler") /\ Truthy(EventDocumentId) /\ EventChunkResults # <<>>) =>
        LET total == Len(EventChunkResults)
            failed == Cardinality(ErrorSet(EventChunkResults))
        IN  /\ TheValue(aggregation_result).raised = Absent
            /\ ReturnedValue.chunksSummary.totalChunks = total
            /\ ReturnedValue.chunksSummary.failedChunks = failed
            /\ ReturnedValue.chunksSummary.successfulChunks = total - failed
            /\ ReturnedValue.partialResult <=> (2 * (total - failed) < total)

\* exactly half of the chunks succeeded: not partial
C15_Witness ==
    /\ Returned("handler")
    /\ Len(EventChunkResults) = 2
    /\ Cardinality(ErrorSet(EventChunkResults)) = 1
    /\ ReturnedValue.chunksSummary.successfulChunks = 1
    /\ ~ReturnedValue.partialResult

\* the positions <<i, j>> of the entities of the input that belong to chunk
\* results without error: entity j of chunk result i
Visited(results) ==
    UNION {{<<i, j>> : j \in 1..Len(TheValue(results[i].processingResult).entities)} :
              i \in {c \in DOMAIN results \ ErrorSet(results) :
                        results[c].processingResult # Absent}}

EntityAt(results, p) == TheValue(results[p[1]].processingResult).entities[p[2]]

\* position p comes before position q in input order
Earlier(p, q) == p[1] < q[1] \/ (p[1] = q[1] /\ p[2] < q[2])

HasTypeAndValue(e) ==
    e.type \notin {Absent, Some("")} /\ e.value \notin {Absent, Some("")}

\* the positions whose entity is kept: it has type and value, and it has a
\* page or is the first entity without page of its (type, value).  The first
\* such entity is always kept, so "no earlier one was kept" and "there is no
\* earlier one" are the same.
Kept(results) ==
    {p \in Visited(results) :
        LET e == EntityAt(results, p)
        IN  /\ HasTypeAndValue(e)
            /\ \/ e.page # Absent
               \/ ~\E q \in Visited(results) :
                      LET f == EntityAt(results, q)
                      IN  /\ Earlier(q, p)
                          /\ HasTypeAndValue(f)
                          /\ f.page = Absent
                          /\ f.type = e.type
                          /\ f.value = e.value}

\* an entity without the chunkIndex tag
Untagged(e) == [e EXCEPT !.chunkIndex = Absent]

EntitiesReturned ==
    Returned("deduplicate_entities") \/ Returned("handler")

\* C16: deduplicate_entities drops an entity without type or value, keeps an
\* entity without page only if it is the first entity without page of its
\* (type, value), and keeps every entity with a page: the entities returned
\* are, each as often as it occurs there, the entities at the kept positions.
C16_KeptEntities ==
    EntitiesReturned =>
        LET results == EventChunkResults
            out == ReturnedValue.entities
        IN  /\ Len(out) = Cardinality(Kept(results))
            /\ \A p \in Kept(results) :
                   Cardinality({i \in DOMAIN out :
                                   Untagged(out[i]) = Untagged(EntityAt(results, p))})
                   = Cardinality({q \in Kept(results) :
                                     Untagged(EntityAt(results, q))
                                         = Untagged(EntityAt(results, p))})

\* John with page 0, then John without page twice: the entity with the page
\* does not suppress the first one without, which suppresses the second
C16_Witness ==
    /\ Returned("deduplicate_entities")
    /\ Cardinality(Visited(EventChunkResults)) = 3
    /\ \E p, q, r \in Visited(EventChunkResults) :
           /\ Earlier(p, q) /\ Earlier(q, r)
           /\ EntityAt(EventChunkResults, p).text = "c"
           /\ EntityAt(EventChunkResults, q).text = "g"
           /\ EntityAt(EventChunkResults, r).text = "a"
    /\ {ReturnedValue.entities[i].text : i \in DOMAIN ReturnedValue.entities} = {"c", "g"}

\* the chunkIndex of chunk result i, 0 when it has none
ChunkIndexOf(results, i) ==
    IF results[i].chunkIndex = Absent THEN 0 ELSE TheValue(results[i].chunkIndex)

\* (chunkIndex, page) of the entity at position p, page 0 when it has none
OrderOf(results, p) ==
    <<ChunkIndexOf(results, p[1]),
      IF EntityAt(results, p).page = Absent THEN 0
      ELSE TheValue(EntityAt(results, p).page)>>

\* the place of the kept position p in the output: behind the kept positions
\* with a smaller (chunkIndex, page) and the earlier ones with the same
PlaceOf(results, p) ==
    1 + Cardinality({q \in Kept(results) :
                        \/ TupleLess(OrderOf(results, q), OrderOf(results, p))
                        \/ OrderOf(results, q) = OrderOf(results, p) /\ Earlier(q, p)})

\* C17: every entity returned carries the chunkIndex of its chunk result, and
\* the list is ascending in (chunkIndex, page or 0), entities with the same
\* (chunkIndex, page or 0) in input order, whatever the order of the chunk
\* results.
C17_EntityOrder ==
    EntitiesReturned =>
        LET results == EventChunkResults
            out == ReturnedValue.entities
        IN  /\ \A p \in Kept(results) :
                   /\ PlaceOf(results, p) \in DOMAIN out
                   /\ out[PlaceOf(results, p)] =
                          [EntityAt(results, p) EXCEPT
                              !.chunkIndex = Some(ChunkIndexOf(results, p[1]))]
            /\ \A i, j \in DOMAIN out :
                   i < j => \/ TheValue(out[i].chunkIndex) < TheValue(out[j].chunkIndex)
                            \/ /\ out[i].chunkIndex = out[j].chunkIndex
                               /\ (IF out[i].page = Absent THEN 0 ELSE TheValue(out[i].page))
                                  <= (IF out[j].page = Absent THEN 0 ELSE TheValue(out[j].page))

\* chunk 1 is supplied before chunk 0; chunk 0 has an entity with page 0 and
\* then one without page, which stay in this order in front of chunk 1's
C17_Witness ==
    /\ Returned("deduplicate_entities")
    /\ Len(EventChunkResults) = 2
    /\ EventChunkResults[1].chunkIndex = Some(1)
    /\ EventChunkResults[2].chunkIndex = Some(0)
    /\ Len(ReturnedValue.entities) = 3
    /\ ReturnedValue.entities[1].text = "c"
    /\ ReturnedValue.entities[2].text = "a"
    /\ ReturnedValue.entities[3].text = "d"
    /\ ReturnedValue.entities[2].chunkIndex = Some(0)
    /\ ReturnedValue.entities[3].chunkIndex = Some(1)

-----------------------------------------------------------------------------
(* chunking_strategies.py: validate_configuration called on its own.        *)
(* A parameter value is a number or a value that is no number (the code     *)
(* tests isinstance(value, (int, float))); a key that is missing or holds   *)
(* None is Absent, except overlapPages, where a missing key reads as 0      *)
(* and None is a value of its own.                                          *)

MaxConfigValue == 2     \* numeric parameter values: -1..MaxConfigValue

Number(n) == [kind |-> "number", n |-> n]

\* a value such as 'abc'
NotANumber == [kind |-> "text", n |-> 0]

\* overlapPages: None
NoneValue == [kind |-> "None", n |-> 0]

\* isinstance(value, (int, float))
IsNumber(v) == v.kind = "number"

\* "not isinstance(value, (int, float)) or value <= 0"
NotPositive(v) == ~IsNumber(v) \/ v.n <= 0

\* "not isinstance(value, (int, float)) or value < 0"
Negative(v) == ~IsNumber(v) \/ v.n < 0

\* overlap = config.get('overlapPages', config.get('overlap_pages', config.get('overlap', 0)))
OverlapRead(cfg) ==
    IF cfg.overlapPages = Absent THEN Number(0) ELSE TheValue(cfg.overlapPages)

\* "chunk_size is not None and overlap >= chunk_size" is evaluated
OverlapCompared(cfg) == OverlapRead(cfg) # NoneValue /\ cfg.chunkSize # Absent

\* Python orders two numbers and two strings, and raises TypeError for one of each
ComparisonRaises(a, b) == a.kind # b.kind

\* a >= b for two values of one kind; the only string of the inputs equals itself
GreaterOrEqual(a, b) == IF IsNumber(a) THEN a.n >= b.n ELSE TRUE

\* the errors list as it stands before the strict test, each message by the
\* constraint it names, in the order of the appends
validation_errors(cfg) ==
    (IF cfg.chunkSize # Absent /\ NotPositive(TheValue(cfg.chunkSize))
        THEN <<"chunk_size must be positive">> ELSE <<>>)
    \o (IF OverlapRead(cfg) # NoneValue /\ Negative(OverlapRead(cfg))
        THEN <<"overlap must be non-negative">> ELSE <<>>)
    \o (IF /\ OverlapCompared(cfg)
           /\ ~ComparisonRaises(OverlapRead(cfg), TheValue(cfg.chunkSize))
           /\ GreaterOrEqual(OverlapRead(cfg), TheValue(cfg.chunkSize))
        THEN <<"overlap must be less than chunk_size">> ELSE <<>>)
    \o (IF cfg.pageThreshold # Absent /\ NotPositive(TheValue(cfg.pageThreshold))
        THEN <<"threshold must be positive">> ELSE <<>>)
    \o (IF cfg.tokenThreshold # Absent /\ NotPositive(TheValue(cfg.tokenThreshold))
        THEN <<"token_threshold must be positive">> ELSE <<>>)
    \o (IF cfg.maxTokensPerChunk # Absent /\ NotPositive(TheValue(cfg.maxTokensPerChunk))
        THEN <<"max_tokens_per_chunk must be positive">> ELSE <<>>)
    \o (IF /\ cfg.targetTokensPerChunk # Absent
           /\ NotPositive(TheValue(cfg.targetTokensPerChunk))
        THEN <<"target_tokens must be positive">> ELSE <<>>)
    \o (IF cfg.maxPagesPerChunk # Absent /\ NotPositive(TheValue(cfg.maxPagesPerChunk))
        THEN <<"max_pages must be positive">> ELSE <<>>)
    \o (IF cfg.overlapTokens # Absent /\ Negative(TheValue(cfg.overlapTokens))
        THEN <<"overlap_tokens must be non-negative">> ELSE <<>>)

\* "overlap >= chunk_size" on a number and a string: TypeError leaves the function
ValidationTypeError(cfg) ==
    /\ OverlapCompared(cfg)
    /\ ComparisonRaises(OverlapRead(cfg), TheValue(cfg.chunkSize))

\* ---- inputs ------------------------------------------------------------------

ConfigNumbers == {Number(n) : n \in -1..MaxConfigValue}

ValidationConfigs ==
    [chunkSize : {Absent} \cup {Some(v) : v \in ConfigNumbers \cup {NotANumber}},
     overlapPages : {Absent}
         \cup {Some(v) : v \in ConfigNumbers \cup {NotANumber, NoneValue}},
     pageThreshold : {Absent, Some(Number(0)), Some(NotANumber)},
     tokenThreshold : {Absent, Some(Number(0))},
     maxTokensPerChunk : {Some(Number(0)), Some(Number(1))},
     targetTokensPerChunk : {Absent, Some(Number(-1))},
     maxPagesPerChunk : {Some(Number(0)), Some(Number(1))},
     overlapTokens : {Some(Number(-1)), Some(Number(0))},
     strict : BOOLEAN]

InitValidate ==
    /\ pc = "validate"
    /\ validation_config \in {Some(cfg) : cfg \in ValidationConfigs}
    /\ validation_outcome = Absent
    /\ cleanup_event = Absent
    /\ chunks_by_bucket = <<>>
    /\ delete_calls = <<>>
    /\ deleted_count = 0
    /\ errors = <<>>
    /\ cleanup_response = Absent
    /\ event = Absent
    /\ environ = Absent
    /\ source_object = Absent
    /\ merged_config = Absent
    /\ caller = Absent
    /\ split_index = 0
    /\ pages_added = 0
    /\ corrupted_pages = <<>>
    /\ chunk_results = <<>>
    /\ upload_attempt = 0
    /\ last_error = Absent
    /\ wait_time = 0
    /\ s3_operation = Absent
    /\ s3_attempts = 0
    /\ storage = {}
    /\ response = Absent
    /\ classifier_input = Absent
    /\ classified_error = Absent
    /\ aggregation_event = Absent
    /\ aggregation_result = Absent
    /\ splits = <<>>
    /\ writes = {}
    /\ NoFixedArgs
    /\ ChunkerIdle
    /\ SelectorIdle
    /\ RetryIdle

validationFrame ==
    <<chunkVars, selVars, retryVars, event, environ, source_object, merged_config,
      caller, splitLocals, uploadLocals, s3Vars, storage, response, classifier_input,
      classified_error, aggregationVars, keyVars, validation_config, cleanupVars>>

\* "return len(errors) == 0"
ValidateReturns ==
    /\ pc = "validate"
    /\ LET cfg == TheValue(validation_config)
       IN  /\ ~ValidationTypeError(cfg)
           /\ ~(validation_errors(cfg) # <<>> /\ cfg.strict)
           /\ validation_outcome' =
                  Some([kind |-> "returned", exception |-> "",
                        value |-> (validation_errors(cfg) = <<>>),
                        message |-> <<>>])
    /\ pc' = "validated"
    /\ UNCHANGED validationFrame

\* "if errors and config.get('strict', False):
\*      raise ConfigurationError("; ".join(errors))"
ValidateRaisesConfigurationError ==
    /\ pc = "validate"
    /\ LET cfg == TheValue(validation_config)
       IN  /\ ~ValidationTypeError(cfg)
           /\ validation_errors(cfg) # <<>>
           /\ cfg.strict
           /\ validation_outcome' =
                  Some([kind |-> "raised", exception |-> "ConfigurationError",
                        value |-> FALSE, message |-> validation_errors(cfg)])
    /\ pc' = "validated"
    /\ UNCHANGED validationFrame

\* the comparison of overlap with chunk_size raises before the strict test
ValidateRaisesTypeError ==
    /\ pc = "validate"
    /\ ValidationTypeError(TheValue(validation_config))
    /\ validation_outcome' =
           Some([kind |-> "raised", exception |-> "TypeError",
                 value |-> FALSE, message |-> <<>>])
    /\ pc' = "validated"
    /\ UNCHANGED validationFrame

NextValidate ==
    \/ ValidateReturns
    \/ ValidateRaisesConfigurationError
    \/ ValidateRaisesTypeError

SpecValidate == InitValidate /\ [][NextValidate]_vars

\* ---- properties ---------------------------------------------------------------

\* the constraints of a configuration that its supplied parameters violate
SuppliedAndNot(cfg, k, Ok(_)) == cfg[k] # Absent /\ ~Ok(TheValue(cfg[k]))

Positive(v) == IsNumber(v) /\ v.n > 0

NonNegative(v) == IsNumber(v) /\ v.n >= 0

OverlapBelowChunkSize(cfg) ==
    \/ cfg.overlapPages = Absent
    \/ cfg.chunkSize = Absent
    \/ TheValue(cfg.overlapPages) = NoneValue
    \/ /\ IsNumber(TheValue(cfg.overlapPages))
       /\ IsNumber(TheValue(cfg.chunkSize))
       /\ TheValue(cfg.overlapPages).n < TheValue(cfg.chunkSize).n

Violations(cfg) ==
    {m \in {"chunk_size must be positive"} : SuppliedAndNot(cfg, "chunkSize", Positive)}
    \cup {m \in {"overlap must be non-negative"} :
             /\ cfg.overlapPages # Absent
             /\ TheValue(cfg.overlapPages) # NoneValue
             /\ ~NonNegative(TheValue(cfg.overlapPages))}
    \cup {m \in {"overlap must be less than chunk_size"} : ~OverlapBelowChunkSize(cfg)}
    \cup {m \in {"threshold must be positive"} :
             SuppliedAndNot(cfg, "pageThreshold", Positive)}
    \cup {m \in {"token_threshold must be positive"} :
             SuppliedAndNot(cfg, "tokenThreshold", Positive)}
    \cup {m \in {"max_tokens_per_chunk must be positive"} :
             SuppliedAndNot(cfg, "maxTokensPerChunk", Positive)}
    \cup {m \in {"target_tokens must be positive"} :
             SuppliedAndNot(cfg, "targetTokensPerChunk", Positive)}
    \cup {m \in {"max_pages must be positive"} :
             SuppliedAndNot(cfg, "maxPagesPerChunk", Positive)}
    \cup {m \in {"overlap_tokens must be non-negative"} :
             SuppliedAndNot(cfg, "overlapTokens", NonNegative)}

Validated == pc = "validated"

\* C22: validate_configuration returns true exactly when every supplied
\* parameter satisfies its constraint (chunkSize > 0, 0 <= overlapPages <
\* chunkSize, thresholds and per-chunk limits > 0, overlapTokens >= 0); without
\* the strict flag it never raises and returns false on any violation; with the
\* strict flag it raises one ConfigurationError whose message names every
\* violated constraint.
C22_ValidationContract ==
    Validated =>
        LET cfg == TheValue(validation_config)
            out == TheValue(validation_outcome)
        IN  /\ (out.kind = "returned" /\ out.value) <=> Violations(cfg) = {}
            /\ ~cfg.strict => out.kind = "returned"
            /\ (cfg.strict /\ Violations(cfg) # {}) =>
                   /\ out.kind = "raised"
                   /\ out.exception = "ConfigurationError"
                   /\ Violations(cfg) \subseteq {out.message[i] : i \in DOMAIN out.message}

-----------------------------------------------------------------------------
(* cleanup/handler.py: handler and delete_chunks_batch.                      *)
(* A chunk of the request is a dict with or without bucket and key; the      *)
(* storage service answers a delete_objects call with the keys it deleted    *)
(* and an error for each of the others, or the call raises.                  *)

MaxCleanupChunks == 3   \* chunks of a cleanup request: 0..MaxCleanupChunks
batch_size == 2         \* keys per delete_objects call (1000 in the source, scaled down)

\* "if bucket and key"
HasBucketAndKey(chunk) == chunk.bucket # Absent /\ chunk.key # Absent

\* chunk_keys: the chunks with bucket and key, in request order
chunk_keys(request_chunks) ==
    LET valid == SelectSeq(request_chunks, HasBucketAndKey)
    IN  [i \in 1..Len(valid) |->
            [bucket |-> TheValue(valid[i].bucket), key |-> TheValue(valid[i].key)]]

\* the keys of chunks_by_bucket in insertion order
RECURSIVE BucketOrder(_, _)
BucketOrder(keys, seen) ==
    IF keys = <<>> THEN seen
    ELSE IF \E i \in 1..Len(seen) : seen[i] = Head(keys).bucket
         THEN BucketOrder(Tail(keys), seen)
         ELSE BucketOrder(Tail(keys), Append(seen, Head(keys).bucket))

\* chunks_by_bucket[bucket].append(chunk)
GroupByBucket(keys) ==
    LET order == BucketOrder(keys, <<>>)
    IN  [i \in 1..Len(order) |->
            [bucket |-> order[i],
             chunks |-> SelectSeq(keys, LAMBDA c : c.bucket = order[i])]]

\* a slice that takes one chunk more than batch_size
BatchWithOneMore(bucket_chunks) ==
    SubSeq(bucket_chunks, 1, Min(batch_size + 1, Len(bucket_chunks)))

\* batch = chunks[i:i + batch_size]
Batch(bucket_chunks) == SubSeq(bucket_chunks, 1, Min(batch_size, Len(bucket_chunks)))

\* what is left to submit after the batch at the head of pending
AfterBatch(pending) ==
    LET head == Head(pending)
        taken == Len(Batch(head.chunks))
        rest == SubSeq(head.chunks, taken + 1, Len(head.chunks))
    IN  IF rest = <<>> THEN Tail(pending)
        ELSE <<[head EXCEPT !.chunks = rest]>> \o Tail(pending)

\* objects_to_delete = [{'Key': chunk['key']} for chunk in batch]
ObjectsToDelete(pending) ==
    LET batch == Batch(Head(pending).chunks)
    IN  [i \in 1..Len(batch) |-> batch[i].key]

\* the answers of delete_objects: every key deleted, none, or all but the first
DeleteAnswers == {"all", "none", "all_but_first"}

\* response.get('Deleted', []) and response.get('Errors', []) of an answer
DeletedKeys(keys, answer) ==
    CASE answer = "all" -> keys
      [] answer = "none" -> <<>>
      [] answer = "all_but_first" -> Tail(keys)

FailedKeys(keys, answer) ==
    CASE answer = "all" -> <<>>
      [] answer = "none" -> keys
      [] answer = "all_but_first" -> <<Head(keys)>>

\* an entry of errors: the text of the message and what it is about
CleanupError(text, subject) == [text |-> text, subject |-> subject]

CleanupResponse(document_id, deleted, error_list) ==
    [documentId |-> document_id, deletedChunks |-> deleted, errors |-> error_list]

\* ---- inputs ------------------------------------------------------------------

CleanupChunkChoices ==
    {[bucket |-> Some("b1"), key |-> Some("k1")],
     [bucket |-> Some("b1"), key |-> Some("k2")],
     [bucket |-> Some("b2"), key |-> Some("k1")],
     [bucket |-> Absent, key |-> Some("k1")],
     [bucket |-> Some("b1"), key |-> Absent]}

CleanupEvents ==
    [documentId : {Absent, Some("doc-1")},
     chunks : ListsUpTo(CleanupChunkChoices, MaxCleanupChunks)]

InitCleanup ==
    /\ pc = "cleanup"
    /\ cleanup_event \in {Some(e) : e \in CleanupEvents}
    /\ chunks_by_bucket = <<>>
    /\ delete_calls = <<>>
    /\ deleted_count = 0
    /\ errors = <<>>
    /\ cleanup_response = Absent
    /\ validation_config = Absent
    /\ validation_outcome = Absent
    /\ event = Absent
    /\ environ = Absent
    /\ source_object = Absent
    /\ merged_config = Absent
    /\ caller = Absent
    /\ split_index = 0
    /\ pages_added = 0
    /\ corrupted_pages = <<>>
    /\ chunk_results = <<>>
    /\ upload_attempt = 0
    /\ last_error = Absent
    /\ wait_time = 0
    /\ s3_operation = Absent
    /\ s3_attempts = 0
    /\ storage = {}
    /\ response = Absent
    /\ classifier_input = Absent
    /\ classified_error = Absent
    /\ aggregation_event = Absent
    /\ aggregation_result = Absent
    /\ splits = <<>>
    /\ writes = {}
    /\ NoFixedArgs
    /\ ChunkerIdle
    /\ SelectorIdle
    /\ RetryIdle

cleanupFrame ==
    <<chunkVars, selVars, retryVars, event, environ, source_object, merged_config,
      caller, splitLocals, uploadLocals, s3Vars, storage, response, classifier_input,
      classified_error, aggregationVars, keyVars, validationVars, cleanup_event>>

CleanupDocumentId == TheValue(cleanup_event).documentId

CleanupChunks == TheValue(cleanup_event).chunks

\* "if not document_id": the response names the missing field
CleanupRejectsEvent ==
    /\ pc = "cleanup"
    /\ CleanupDocumentId = Absent
    /\ cleanup_response' =
           Some(CleanupResponse(Absent, 0,
                    <<CleanupError("Missing required field: documentId", "")>>))
    /\ pc' = "cleanup_returned"
    /\ UNCHANGED <<cleanupFrame, chunks_by_bucket, delete_calls, deleted_count, errors>>

\* "if not chunks": nothing to clean up
CleanupNothingToDo ==
    /\ pc = "cleanup"
    /\ CleanupDocumentId # Absent
    /\ CleanupChunks = <<>>
    /\ cleanup_response' = Some(CleanupResponse(CleanupDocumentId, 0, <<>>))
    /\ pc' = "cleanup_returned"
    /\ UNCHANGED <<cleanupFrame, chunks_by_bucket, delete_calls, deleted_count, errors>>

\* "if not chunk_keys": every chunk lacks bucket or key
CleanupNoValidKeys ==
    /\ pc = "cleanup"
    /\ CleanupDocumentId # Absent
    /\ CleanupChunks # <<>>
    /\ chunk_keys(CleanupChunks) = <<>>
    /\ cleanup_response' =
           Some(CleanupResponse(CleanupDocumentId, 0,
                    <<CleanupError("No valid chunk keys found", "")>>))
    /\ pc' = "cleanup_returned"
    /\ UNCHANGED <<cleanupFrame, chunks_by_bucket, delete_calls, deleted_count, errors>>

\* delete_chunks_batch is entered: the chunks are grouped by bucket
CleanupGroupsKeys ==
    /\ pc = "cleanup"
    /\ CleanupDocumentId # Absent
    /\ chunk_keys(CleanupChunks) # <<>>
    /\ chunks_by_bucket' = GroupByBucket(chunk_keys(CleanupChunks))
    /\ deleted_count' = 0
    /\ errors' = <<>>
    /\ pc' = "delete_batches"
    /\ UNCHANGED <<cleanupFrame, delete_calls, cleanup_response>>

\* one batch: delete_objects answers, with an error for each key it did not delete
DeleteObjectsAnswers ==
    /\ pc = "delete_batches"
    /\ chunks_by_bucket # <<>>
    /\ \E answer \in DeleteAnswers :
          LET keys == ObjectsToDelete(chunks_by_bucket)
              deleted == DeletedKeys(keys, answer)
              failed == FailedKeys(keys, answer)
          IN  /\ deleted_count' = deleted_count + Len(deleted)
              /\ errors' = errors \o
                     [i \in 1..Len(failed) |-> CleanupError("Failed to delete", failed[i])]
              /\ delete_calls' = Append(delete_calls,
                     [bucket |-> Head(chunks_by_bucket).bucket, keys |-> keys,
                      outcome |-> "answered", deleted |-> Len(deleted)])
    /\ chunks_by_bucket' = AfterBatch(chunks_by_bucket)
    /\ UNCHANGED <<pc, cleanupFrame, cleanup_response>>

\* one batch: delete_objects raises ClientError
DeleteObjectsClientError ==
    /\ pc = "delete_batches"
    /\ chunks_by_bucket # <<>>
    /\ errors' = Append(errors, CleanupError("S3 batch delete failed for bucket",
                                             Head(chunks_by_bucket).bucket))
    /\ delete_calls' = Append(delete_calls,
           [bucket |-> Head(chunks_by_bucket).bucket,
            keys |-> ObjectsToDelete(chunks_by_bucket),
            outcome |-> "ClientError", deleted |-> 0])
    /\ chunks_by_bucket' = AfterBatch(chunks_by_bucket)
    /\ UNCHANGED <<pc, cleanupFrame, deleted_count, cleanup_response>>

\* one batch: delete_objects raises another exception
DeleteObjectsUnexpectedError ==
    /\ pc = "delete_batches"
    /\ chunks_by_bucket # <<>>
    /\ errors' = Append(errors, CleanupError("Unexpected error during batch delete", ""))
    /\ delete_calls' = Append(delete_calls,
           [bucket |-> Head(chunks_by_bucket).bucket,
            keys |-> ObjectsToDelete(chunks_by_bucket),
            outcome |-> "Exception", deleted |-> 0])
    /\ chunks_by_bucket' = AfterBatch(chunks_by_bucket)
    /\ UNCHANGED <<pc, cleanupFrame, deleted_count, cleanup_response>>

\* "return deleted_count, errors" and the response of handler
CleanupReturns ==
    /\ pc = "delete_batches"
    /\ chunks_by_bucket = <<>>
    /\ cleanup_response' = Some(CleanupResponse(CleanupDocumentId, deleted_count, errors))
    /\ pc' = "cleanup_returned"
    /\ UNCHANGED <<cleanupFrame, chunks_by_bucket, delete_calls, deleted_count, errors>>

NextCleanup ==
    \/ CleanupRejectsEvent \/ CleanupNothingToDo \/ CleanupNoValidKeys
    \/ CleanupGroupsKeys
    \/ DeleteObjectsAnswers \/ DeleteObjectsClientError \/ DeleteObjectsUnexpectedError
    \/ CleanupReturns

SpecCleanup == InitCleanup /\ [][NextCleanup]_vars

\* ---- properties ---------------------------------------------------------------

CleanupBuckets == {"b1", "b2"}

CleanupKeys == {"k1", "k2"}

\* how often the request names the object (b, k) in a chunk with bucket and key
Requested(b, k) ==
    Cardinality({i \in 1..Len(CleanupChunks) :
                    /\ CleanupChunks[i].bucket = Some(b)
                    /\ CleanupChunks[i].key = Some(k)})

\* how often the object (b, k) was submitted in a delete call
Submitted(b, k) ==
    Cardinality({<<c, i>> \in (1..Len(delete_calls)) \X (1..(batch_size + 1)) :
                    /\ i <= Len(delete_calls[c].keys)
                    /\ delete_calls[c].bucket = b
                    /\ delete_calls[c].keys[i] = k})

RECURSIVE ReportedDeleted(_)
ReportedDeleted(calls) ==
    IF calls = <<>> THEN 0 ELSE Head(calls).deleted + ReportedDeleted(Tail(calls))

\* the entries a call adds to errors: one when it failed as a whole, one for
\* each key it did not delete otherwise
RECURSIVE ErrorsOwed(_)
ErrorsOwed(calls) ==
    IF calls = <<>> THEN 0
    ELSE (IF Head(calls).outcome = "answered"
             THEN Len(Head(calls).keys) - Head(calls).deleted ELSE 1)
         + ErrorsOwed(Tail(calls))

CleanupReturned == pc = "cleanup_returned"

\* C23: the cleanup handler returns {documentId, deletedChunks, errors} for
\* every request and never raises; chunks without bucket or key are skipped;
\* the other keys are submitted per bucket in delete calls of at most
\* batch_size keys, every one in exactly one call; a call that fails, as a
\* whole or for single keys, only adds to errors and the remaining batches and
\* buckets are still attempted; deletedChunks is the number of keys the
\* storage service reported deleted.
C23_CleanupBestEffort ==
    /\ pc \in {"cleanup", "delete_batches", "cleanup_returned"}
    /\ \A c \in 1..Len(delete_calls) :
          /\ Len(delete_calls[c].keys) \in 1..batch_size
          /\ delete_calls[c].bucket \in CleanupBuckets
    /\ CleanupReturned =>
          /\ cleanup_response # Absent
          /\ DOMAIN TheValue(cleanup_response) = {"documentId", "deletedChunks", "errors"}
          /\ TheValue(cleanup_response).documentId = CleanupDocumentId
          /\ TheValue(cleanup_response).deletedChunks = ReportedDeleted(delete_calls)
          /\ CleanupDocumentId = Absent =>
                 (delete_calls = <<>> /\ TheValue(cleanup_response).errors # <<>>)
          /\ CleanupDocumentId # Absent =>
                 /\ \A b \in CleanupBuckets, k \in CleanupKeys :
                        Submitted(b, k) = Requested(b, k)
                 /\ delete_calls # <<>> =>
                        Len(TheValue(cleanup_response).errors) = ErrorsOwed(delete_calls)

\* three keys of one bucket go out in two calls: the first raises ClientError,
\* the second deletes its key
C23_Witness ==
    /\ CleanupReturned
    /\ Len(delete_calls) = 2
    /\ delete_calls[1].bucket = delete_calls[2].bucket
    /\ Len(delete_calls[1].keys) = batch_size
    /\ delete_calls[1].outcome = "ClientError"
    /\ delete_calls[2].outcome = "answered"
    /\ TheValue(cleanup_response).deletedChunks = 1
    /\ Len(TheValue(cleanup_response).errors) = 1

-----------------------------------------------------------------------------
(* calculate_chunks_hybrid: the finalize reasons of the returned boundaries *)

\* the boundary was closed by the token target: fewer pages than the cap, and
\* the page after it would have taken it over targetTokensPerChunk
ClosedByTokens(b) ==
    /\ b.page_count < max_pages
    /\ b.end_page + 1 < Len(tokens_per_page)
    /\ b.token_count + PageTokens(tokens_per_page, b.end_page + 1) > target_tokens

ClosedByPages(b) == b.page_count >= max_pages

\* C24: in every non-empty list returned by calculate_chunks_hybrid exactly one
\* boundary, the last, has finalize_reason 'final_chunk'; every other boundary
\* has 'page_limit' or 'token_limit'; a 'token_limit' boundary has fewer pages
\* than max_pages and its tokens plus those of the next page exceed
\* target_tokens; a 'page_limit' boundary has at least max_pages pages.
C24_FinalizeReasons ==
    (pc = "done" /\ chunks # <<>>) =>
        /\ chunks[Len(chunks)].finalize_reason = "final_chunk"
        /\ \A i \in 1..(Len(chunks) - 1) :
              chunks[i].finalize_reason \in {"page_limit", "token_limit"}
        /\ \A i \in 1..Len(chunks) :
              /\ chunks[i].finalize_reason = "token_limit" => ClosedByTokens(chunks[i])
              /\ chunks[i].finalize_reason = "page_limit" => ClosedByPages(chunks[i])

-----------------------------------------------------------------------------
(* retry_with_exponential_backoff: the sleeps *)

\* d_k = min(base_delay * 2^k, max_delay), in tenths of a second
CappedBackoff(k) == 10 * Min(base_delay * Pow2(k), max_delay)

\* C25: the sleep after the failed attempt with 0-based index k (k < max_retries)
\* is d_k = min(base_delay * 2^k, max_delay) without jitter and d_k times a
\* factor of [0.5, 1.0) with jitter, so that no sleep exceeds max_delay; no
\* sleep follows the final failed attempt or a success.
C25_SleepDelay ==
    /\ sleep_count > 0 =>
          LET k == attempt - 1 IN
          /\ k < max_retries
          /\ ~jitter => delay = CappedBackoff(k)
          /\ jitter => (2 * delay >= CappedBackoff(k) /\ delay < CappedBackoff(k))
          /\ delay <= 10 * max_delay
    /\ pc = "retry_call" => sleep_count = call_count
    /\ (pc \in {"returned", "raised"} /\ call_count > 0) => sleep_count = call_count - 1

-----------------------------------------------------------------------------
(* calculate_chunks_token_based and calculate_chunks_hybrid together: the    *)
(* boundaries either of them builds                                          *)

InitChunkers == InitToken \/ InitHybrid

NextChunkers == NextToken \/ NextHybrid

SpecChunkers == InitChunkers /\ [][NextChunkers]_vars

\* the tokens on the pages first..last of the document (0-based, inclusive)
RECURSIVE TokensOnPages(_, _)
TokensOnPages(first, last) ==
    IF first > last THEN 0
    ELSE tokens_per_page[last + 1] + TokensOnPages(first, last - 1)

\* C26: every boundary that calculate_chunks_token_based and
\* calculate_chunks_hybrid append (main pass, trailing re-split, final chunk)
\* has page_count = end_page - start_page + 1 and token_count equal to the sum
\* of tokens_per_page over start_page..end_page, overlap pages included.
C26_CountsMatchPages ==
    \A i \in 1..Len(chunks) :
        /\ 0 <= chunks[i].start_page
        /\ chunks[i].end_page < Len(tokens_per_page)
        /\ chunks[i].page_count = chunks[i].end_page - chunks[i].start_page + 1
        /\ chunks[i].token_count = TokensOnPages(chunks[i].start_page, chunks[i].end_page)

\* a returned list of three boundaries whose second starts with overlap pages
C26_Witness ==
    /\ pc = "done"
    /\ Len(chunks) >= 3
    /\ chunks[2].start_page <= chunks[1].end_page
    /\ chunks[2].token_count > 0
    /\ chunks[3].start_page > chunks[2].start_page

\* C27: in the lists returned by calculate_chunks_token_based and
\* calculate_chunks_hybrid every boundary after the first starts after the
\* start of its predecessor and ends after the end of its predecessor.
C27_StrictProgress ==
    pc = "done" =>
        \A i \in 2..Len(chunks) :
            /\ chunks[i].start_page > chunks[i - 1].start_page
            /\ chunks[i].end_page > chunks[i - 1].end_page

-----------------------------------------------------------------------------
(* handler with _split_and_upload_pdf: what a run leaves in storage and the  *)
(* numbering of the artifacts it returns                                     *)

ReturnedError == pc = "handler_returned" /\ TheValue(response).error # Absent

ReturnedChunks ==
    /\ pc = "handler_returned"
    /\ TheValue(response).error = Absent
    /\ TheValue(response).requiresChunking

\* C28: the chunks are written in ascending boundary order, and when the
\* handler returns an error response no chunk written by the invocation
\* remains in storage.
C28_NothingStoredOnError ==
    /\ \A i, j \in 1..Len(chunk_results) :
          i < j => chunk_results[i].chunkIndex < chunk_results[j].chunkIndex
    /\ ReturnedError => storage = {}

\* C29: in a successful chunking response every artifact's totalChunks is the
\* number of artifacts of the response and the chunkIndex values are
\* 0..totalChunks-1 in order, also when boundaries were dropped because none of
\* their pages could be copied.
C29_ArtifactNumbering ==
    ReturnedChunks =>
        LET artifacts == TheValue(TheValue(response).chunks) IN
        \A i \in 1..Len(artifacts) :
            /\ artifacts[i].totalChunks = Len(artifacts)
            /\ artifacts[i].chunkIndex = i - 1

-----------------------------------------------------------------------------
(* aggregation/handler.py: the chunk results in another arrival order *)

\* what handler computes from the chunk results
Aggregation(results) ==
    LET chunks_summary == calculate_chunks_summary(results)
        aggregated == aggregate_classifications(results)
    IN  [classification |-> aggregated[1],
         classificationConfidence |-> aggregated[2],
         entities |-> deduplicate_entities(results),
         chunksSummary |-> chunks_summary,
         partialResult |-> SuccessRateBelowHalf(chunks_summary.successfulChunks,
                                                chunks_summary.totalChunks)]

\* the same chunk results in every order
Arrangements(results) ==
    {[i \in DOMAIN results |-> results[f[i]]] : f \in Permutations(DOMAIN results)}

\* every chunk result has a chunkIndex and no two have the same
DistinctChunkIndexes(results) ==
    /\ \A i \in DOMAIN results : results[i].chunkIndex # Absent
    /\ \A i, j \in DOMAIN results :
          i # j => results[i].chunkIndex # results[j].chunkIndex

\* the handler has returned the aggregation of chunk results with distinct indexes
AggregatedDistinct ==
    /\ Returned("handler")
    /\ DistinctChunkIndexes(EventChunkResults)
    /\ [k \in DOMAIN Aggregation(EventChunkResults) |-> ReturnedValue[k]]
           = Aggregation(EventChunkResults)

\* two chunk results without error hold an entity without page of the same
\* (type, value)
SharedPagelessEntity(results) ==
    \E p, q \in Visited(results) :
        /\ p[1] # q[1]
        /\ HasTypeAndValue(EntityAt(results, p))
        /\ HasTypeAndValue(EntityAt(results, q))
        /\ EntityAt(results, p).page = Absent
        /\ EntityAt(results, q).page = Absent
        /\ EntityAt(results, p).type = EntityAt(results, q).type
        /\ EntityAt(results, p).value = EntityAt(results, q).value

EntitiesWithPage(entities) == SelectSeq(entities, HasPage)

\* C30, as claimed: for chunk results with distinct chunkIndex values the
\* aggregation returns the same classification, confidence, chunksSummary,
\* partialResult and entity list, chunkIndex tags included, for every
\* permutation of the list.
C30_ArrivalOrderIrrelevant ==
    (Returned("handler") /\ DistinctChunkIndexes(EventChunkResults)) =>
        /\ AggregatedDistinct
        /\ \A arranged \in Arrangements(EventChunkResults) :
              Aggregation(arranged) = Aggregation(EventChunkResults)

\* C30, amended: for chunk results with distinct chunkIndex values every
\* permutation of the list yields the same classification, confidence,
\* chunksSummary and partialResult and the same list of entities with a page;
\* it yields the same entity list, tags included, unless two chunk results
\* hold an entity without page of the same (type, value), of which the one
\* that arrives first is kept.
C30_ArrivalOrderAndDuplicates ==
    (Returned("handler") /\ DistinctChunkIndexes(EventChunkResults)) =>
        /\ AggregatedDistinct
        /\ \A arranged \in Arrangements(EventChunkResults) :
              LET here == Aggregation(EventChunkResults)
                  there == Aggregation(arranged)
              IN  /\ there.classification = here.classification
                  /\ there.classificationConfidence = here.classificationConfidence
                  /\ there.chunksSummary = here.chunksSummary
                  /\ there.partialResult = here.partialResult
                  /\ EntitiesWithPage(there.entities) = EntitiesWithPage(here.entities)
                  /\ ~SharedPagelessEntity(EventChunkResults) =>
                         there.entities = here.entities
                  /\ Len(there.entities) = Len(here.entities)

\* chunk 1 arrives before chunk 0, each with an entity that has a page and no
\* entity without page in both: the three entities come back in chunk order
C30_Witness ==
    /\ AggregatedDistinct
    /\ Len(EventChunkResults) = 2
    /\ EventChunkResults[1].chunkIndex = Some(1)
    /\ EventChunkResults[2].chunkIndex = Some(0)
    /\ ~SharedPagelessEntity(EventChunkResults)
    /\ Len(ReturnedValue.entities) = 3
    /\ ReturnedValue.entities[1].chunkIndex = Some(0)
    /\ ReturnedValue.entities[1].page # Absent
    /\ ReturnedValue.entities[3].chunkIndex = Some(1)
    /\ ReturnedValue.entities[3].page # Absent
====
